---- MODULE Spec2Model ----
(***************************************************************************)
(* A model of six parts of fissile:                                        *)
(*   - the concurrent package compilation of compilator.Compile            *)
(*     (src/compilator/compilator.go),                                     *)
(*   - the link resolution of resolver.ResolveLinks                        *)
(*     (src/model/resolver/resolver.go),                                   *)
(*   - the signature aggregation of model.AggregateSignatures              *)
(*     (src/model/instance_groups.go),                                     *)
(*   - the run aggregation of model.InstanceGroup.CalculateRoleRun         *)
(*     (src/model/instance_groups.go),                                     *)
(*   - the property selection of model.Job.GetPropertiesForJob             *)
(*     (the job file of package model),                                    *)
(*   - the version hash of model.InstanceGroup.GetRoleDevVersion           *)
(*     (src/model/instance_groups.go).                                     *)
(***************************************************************************)
EXTENDS Integers, Sequences, FiniteSets, TLC

\* ------------------------------------------------------------------------
\* Bounds of the model
\* ------------------------------------------------------------------------

\* number of distinct package fingerprints of an input
NumPkgs == 3

\* largest worker count (workerLib.MaxJobs) tried
MaxWorkers == 2

\* largest number of signatures of one AggregateSignatures input
MaxSigs == 2

\* largest number of bytes of all signatures of one input together
MaxBytes == 3

VARIABLES
    \* --- Compile: inputs ---
    releases,           \* []*model.Release: a sequence of package sequences
    compiledStore,      \* fingerprints isPackageCompiled finds in the local store
    packageStorage,     \* "none" (nil), "ro" (ReadOnly) or "rw"
    workerCount,        \* workerLib.MaxJobs
    \* --- Compile: state ---
    mainpc,             \* position of Compile itself
    signalDependencies, \* fingerprint -> "open" | "closed"
    buckets,            \* the jobs added to the worker, in queue order
    jobs,               \* per job (index into buckets): position of compileJob.Run
    result,             \* the compileResult the synchronizer is handling
    killed,             \* killCh is closed
    err,                \* the error Compile returns
    \* --- Compile: history (not read by the program) ---
    hist,
    \* --- ResolveLinks ---
    manifest,           \* the role manifest as loaded (kept for reference)
    rm,                 \* r.roleManifest: the instance groups being resolved
    linkErrors,         \* the validation.ErrorList of the last ResolveLinks on rm
    linkRuns,           \* how often ResolveLinks ran on rm
    rerun,              \* a second, independent run on the manifest as loaded
    \* --- AggregateSignatures ---
    signatures,         \* two inputs: sequences of strings, a string a sequence of bytes
    hashed,             \* per input: the bytes written to the hasher, once it ran
    \* --- CalculateRoleRun ---
    group,              \* the instance group: its name and its job references
    groupRun,           \* g.Run and the returned validation.ErrorList, once it ran
    \* --- GetPropertiesForJob ---
    opinions,           \* the job's spec properties, the light and the dark opinions
    jobProperties,      \* the returned property tree, once it ran
    \* --- GetRoleDevVersion ---
    roles,              \* two inputs: an instance group with its jobs and the versions
    devVersions,        \* per input: the bytes that go into the version hash
    \* --- createDepBuckets, pass by pass ---
    depInput,           \* packages: the list createDepBuckets is called with
    depLoop,            \* depCount, revDeps, keepRunning, rubies, buckets and the position
    \* --- ResolveRoleManifest ---
    roleManifest,       \* m: the instance groups, the features and the authorization
    resolveOut          \* r: its release resolver and, once it ran, the returned
                        \* errors and the calls it made

compileVars == <<releases, compiledStore, packageStorage, workerCount, mainpc,
                 signalDependencies, buckets, jobs, result, killed, err, hist>>

linkVars == <<manifest, rm, linkErrors, linkRuns, rerun>>

aggVars == <<signatures, hashed>>

runVars == <<group, groupRun>>

propVars == <<opinions, jobProperties>>

devVars == <<roles, devVersions>>

queueVars == <<depInput, depLoop>>

stageVars == <<roleManifest, resolveOut>>

roleVars == <<runVars, propVars, devVars, queueVars, stageVars>>

vars == <<compileVars, linkVars, aggVars, roleVars>>

\* ------------------------------------------------------------------------
\* Sequence helpers
\* ------------------------------------------------------------------------

Range(s) == {s[i] : i \in DOMAIN s}

RECURSIVE SetToSeq(_)
\* the elements of a set of integers in increasing order
SetToSeq(S) ==
    IF S = {} THEN <<>>
    ELSE LET m == CHOOSE x \in S : \A y \in S : x <= y
         IN <<m>> \o SetToSeq(S \ {m})

RECURSIVE Perms(_)
\* the orders of the elements of S (the orders in which `range` may produce the keys S)
Perms(S) ==
    IF S = {} THEN {<<>>}
    ELSE UNION {{<<x>> \o p : p \in Perms(S \ {x})} : x \in S}

RECURSIVE Flatten(_)
Flatten(ss) == IF ss = <<>> THEN <<>> ELSE Head(ss) \o Flatten(Tail(ss))

\* ------------------------------------------------------------------------
\* Packages
\* ------------------------------------------------------------------------

Fingerprints == 1..NumPkgs

\* model.Package: Release, Name (its rank in the order Packages sorts by), whether
\* the name begins with "ruby-2.", Fingerprint and the fingerprints of Dependencies
Pkg(rel, name, ruby, fp, deps) ==
    [rel |-> rel, name |-> name, ruby |-> ruby, fp |-> fp, deps |-> deps]


\* ------------------------------------------------------------------------
\* Setup phase of Compile (single-threaded)
\* ------------------------------------------------------------------------

\* a gatherPackages that takes every package, whatever its fingerprint
KnownNever(sig, fp) == FALSE

\* _, known := c.signalDependencies[pkg.Fingerprint]
Known(sig, fp) == fp \in DOMAIN sig

RECURSIVE GatherFrom(_, _, _)
\* the loop over releasePackages of gatherPackages, run over the packages of all
\* releases in order: only the first package of a fingerprint is taken
GatherFrom(pkgs, sig, acc) ==
    IF pkgs = <<>> THEN [sig |-> sig, packages |-> acc]
    ELSE LET pkg == Head(pkgs)
         IN IF ~Known(sig, pkg.fp)
            THEN GatherFrom(Tail(pkgs), (pkg.fp :> "open") @@ sig, Append(acc, pkg))
            ELSE GatherFrom(Tail(pkgs), sig, acc)

\* gatherPackages: c.signalDependencies is empty when Compile is first called
gatherPackages(rels) == GatherFrom(Flatten(rels), <<>>, <<>>)

\* close(ch) panics when ch is nil (no entry in the map) or closed already
CanClose(sig, fp) == fp \in DOMAIN sig /\ sig[fp] = "open"

Close(sig, fp) == IF fp \in DOMAIN sig THEN [sig EXCEPT ![fp] = "closed"] ELSE sig

\* a removeCompiledPackages that keeps every package
RemoveNone(pkgs, store, st) == [st EXCEPT !.packages = @ \o pkgs]

RECURSIVE RemoveFrom(_, _, _)
\* the loop of removeCompiledPackages; store is the set of fingerprints
\* isPackageCompiledHarness reports compiled; st is [sig, packages, panic]
RemoveFrom(pkgs, store, st) ==
    IF pkgs = <<>> THEN st
    ELSE LET pkg == Head(pkgs)
         IN IF pkg.fp \in store
            THEN RemoveFrom(Tail(pkgs), store,
                     [st EXCEPT !.sig = Close(@, pkg.fp),
                                !.panic = @ \/ ~CanClose(st.sig, pkg.fp)])
            ELSE RemoveFrom(Tail(pkgs), store,
                     [st EXCEPT !.packages = Append(@, pkg)])

removeCompiledPackages(packages, sig, store) ==
    RemoveFrom(packages, store, [sig |-> sig, packages |-> <<>>, panic |-> FALSE])

RECURSIVE InsertByName(_, _)
InsertByName(pkg, sorted) ==
    IF sorted = <<>> THEN <<pkg>>
    ELSE IF pkg.name < Head(sorted).name THEN <<pkg>> \o sorted
    ELSE <<Head(sorted)>> \o InsertByName(pkg, Tail(sorted))

RECURSIVE SortPackages(_)
\* sort.Sort(packages): Packages are ordered by Name
SortPackages(pkgs) ==
    IF pkgs = <<>> THEN <<>>
    ELSE InsertByName(pkgs[Len(pkgs)], SortPackages(SubSeq(pkgs, 1, Len(pkgs) - 1)))

\* ------------------------------------------------------------------------
\* createDepBuckets
\* ------------------------------------------------------------------------

\* first loop: depCount[pkg.Fingerprint] = 0 for every package
InitDepCount(packages) == [fp \in {packages[i].fp : i \in DOMAIN packages} |-> 0]

RECURSIVE CountDepsOf(_, _, _)
\* the loop over pkg.Dependencies: a dependency that is not in depCount is
\* compiled already and skipped; st is [depCount, revDeps]
CountDepsOf(pkg, deps, st) ==
    IF deps = <<>> THEN st
    ELSE LET dep == Head(deps)
         IN IF dep \notin DOMAIN st.depCount
            THEN CountDepsOf(pkg, Tail(deps), st)
            ELSE CountDepsOf(pkg, Tail(deps),
                     [depCount |-> [st.depCount EXCEPT ![pkg.fp] = @ + 1],
                      revDeps  |-> [st.revDeps EXCEPT ![dep] = Append(@, pkg.fp)]])

RECURSIVE CountDeps(_, _)
\* second loop: finalize depCount and fill the reverse dependencies
CountDeps(pkgs, st) ==
    IF pkgs = <<>> THEN st
    ELSE CountDeps(Tail(pkgs), CountDepsOf(Head(pkgs), Head(pkgs).deps, st))

RECURSIVE NotifyUsers(_, _)
\* for _, usr := range revDeps[pkg.Fingerprint] { depCount[usr.Fingerprint]-- }
NotifyUsers(users, depCount) ==
    IF users = <<>> THEN depCount
    ELSE NotifyUsers(Tail(users), [depCount EXCEPT ![Head(users)] = @ - 1])

\* a queue that gives no package priority
IsRubyNever(pkg) == FALSE

\* strings.HasPrefix(pkg.Name, "ruby-2.")
IsRuby(pkg) == pkg.ruby

RECURSIVE BucketPass(_, _, _)
\* one pass of the inner loop over packages; st is
\* [depCount, keepRunning, rubies, buckets]
BucketPass(pkgs, revDeps, st) ==
    IF pkgs = <<>> THEN st
    ELSE LET pkg == Head(pkgs)
         IN IF st.depCount[pkg.fp] # 0
            THEN BucketPass(Tail(pkgs), revDeps, st)
            ELSE LET dc == NotifyUsers(revDeps[pkg.fp],
                                       [st.depCount EXCEPT ![pkg.fp] = @ - 1])
                 IN BucketPass(Tail(pkgs), revDeps,
                        IF IsRuby(pkg)
                        THEN [st EXCEPT !.depCount = dc, !.keepRunning = TRUE,
                                        !.rubies = Append(@, pkg)]
                        ELSE [st EXCEPT !.depCount = dc, !.keepRunning = TRUE,
                                        !.buckets = Append(@, pkg)])

RECURSIVE BucketLoop(_, _, _)
\* for keepRunning { keepRunning = false; ... }
BucketLoop(packages, revDeps, st) ==
    IF ~st.keepRunning THEN st
    ELSE BucketLoop(packages, revDeps,
                    BucketPass(packages, revDeps, [st EXCEPT !.keepRunning = FALSE]))

createDepBuckets(packages) ==
    LET dc0 == InitDepCount(packages)
        cnt == CountDeps(packages, [depCount |-> dc0,
                                    revDeps  |-> [fp \in DOMAIN dc0 |-> <<>>]])
        fin == BucketLoop(packages, cnt.revDeps,
                          [depCount |-> cnt.depCount, keepRunning |-> TRUE,
                           rubies |-> <<>>, buckets |-> <<>>])
    IN fin.rubies \o fin.buckets

\* ------------------------------------------------------------------------
\* Errors and results
\* ------------------------------------------------------------------------

NoError == [kind |-> "nil", pkg |-> 0]

\* var errWorkerAbort = errors.New("worker aborted")
errWorkerAbort == [kind |-> "worker aborted", pkg |-> 0]

\* the error a step of a job of package fp returns
ErrorOf(kind, fp) == [kind |-> kind, pkg |-> fp]

NoResult == [job |-> 0, err |-> NoError]

\* ------------------------------------------------------------------------
\* Inputs of Compile
\* ------------------------------------------------------------------------

RECURSIVE DepClosure(_, _, _)
\* the fingerprints reachable from S along d in at most k steps
DepClosure(d, S, k) ==
    IF k = 0 THEN S
    ELSE DepClosure(d, S \cup UNION {d[f] : f \in S}, k - 1)

\* package dependencies form a DAG
Acyclic(d) == \A f \in DOMAIN d : f \notin DepClosure(d, d[f], Cardinality(DOMAIN d))

DepGraphs == {d \in [Fingerprints -> SUBSET Fingerprints] : Acyclic(d)}

\* a release holding one package per fingerprint; the package whose name begins
\* with "ruby-2." is the one of fingerprint rubyFp (none when rubyFp = 0); the
\* second release names its packages in the opposite order
ReleaseOf(rel, d, rubyFp) ==
    [i \in Fingerprints |->
        Pkg(rel, IF rel = 1 THEN i ELSE NumPkgs + 1 - i, i = rubyFp, i, SetToSeq(d[i]))]

\* Compile is not running
CompileIdle ==
    /\ releases = <<>>
    /\ compiledStore = {}
    /\ packageStorage = "none"
    /\ workerCount = 1
    /\ mainpc = "idle"
    /\ signalDependencies = <<>>
    /\ buckets = <<>>
    /\ jobs = <<>>
    /\ result = [kind |-> "nil", pkg |-> 0]
    /\ killed = FALSE
    /\ err = [kind |-> "nil", pkg |-> 0]
    /\ hist = <<>>

\* no role manifest is loaded
LinksIdle ==
    /\ manifest = <<>>
    /\ rm = <<>>
    /\ linkErrors = <<>>
    /\ linkRuns = 0
    /\ rerun = [done |-> FALSE, rm |-> <<>>, errors |-> <<>>]

\* no signatures are aggregated
AggIdle ==
    /\ signatures = <<>>
    /\ hashed = <<>>

\* CalculateRoleRun has no instance group
RunIdle ==
    /\ group = <<>>
    /\ groupRun = <<>>

\* GetPropertiesForJob has no job
PropsIdle ==
    /\ opinions = <<>>
    /\ jobProperties = <<>>

\* GetRoleDevVersion has no instance group
DevIdle ==
    /\ roles = <<>>
    /\ devVersions = <<>>

\* createDepBuckets has no list
QueueIdle ==
    /\ depInput = <<>>
    /\ depLoop = <<>>

\* ResolveRoleManifest has no role manifest
StagesIdle ==
    /\ roleManifest = <<>>
    /\ resolveOut = <<>>

InitHist ==
    [started      |-> {},
     compileCount |-> [f \in Fingerprints |-> 0],
     observedOk   |-> {},
     firstFailure |-> NoError,
     received     |-> <<>>,
     aborted      |-> {},
     lateGate     |-> {},
     closes       |-> [f \in Fingerprints |-> 0],
     killCloses   |-> 0,
     exists       |-> <<>>,
     compiledOk   |-> {},
     downloads    |-> {},
     uploads      |-> {},
     failed       |-> {}]

CompileInit ==
    /\ \E d \in DepGraphs, rubyFp \in 0..NumPkgs :
          releases = <<ReleaseOf(1, d, rubyFp), ReleaseOf(2, d, rubyFp)>>
    /\ compiledStore \in SUBSET Fingerprints
    /\ packageStorage \in {"none", "ro", "rw"}
    /\ workerCount \in 1..MaxWorkers
    /\ mainpc = "start"
    /\ signalDependencies = <<>>
    /\ buckets = <<>>
    /\ jobs = <<>>
    /\ result = NoResult
    /\ killed = FALSE
    /\ err = NoError
    /\ hist = InitHist
    /\ LinksIdle
    /\ AggIdle
    /\ RunIdle
    /\ PropsIdle
    /\ DevIdle
    /\ QueueIdle
    /\ StagesIdle

\* ------------------------------------------------------------------------
\* Compile: setup
\* ------------------------------------------------------------------------

\* what no step of Compile changes
inputs == <<releases, compiledStore, packageStorage, workerCount, linkVars, aggVars, roleVars>>

QueuedJob == [pc |-> "queued", dep |-> 0, res |-> NoError]

\* Compile up to the start of the workers: gatherPackages, removeCompiledPackages
\* (isPackageCompiledHarness may fail at the failAt-th package), the early returns,
\* sort.Sort, createDepBuckets and worker.Add of every bucket
CompileSetup ==
    /\ mainpc = "start"
    /\ LET gathered == gatherPackages(releases)
       IN \E failAt \in 0..Len(gathered.packages) :
            LET upTo == IF failAt = 0 THEN Len(gathered.packages) ELSE failAt - 1
                culled == removeCompiledPackages(SubSeq(gathered.packages, 1, upTo),
                                                 gathered.sig, compiledStore)
            IN /\ signalDependencies' = culled.sig
               /\ IF culled.panic
                  THEN /\ mainpc' = "panic"
                       /\ UNCHANGED <<buckets, jobs, err>>
                  ELSE IF failAt # 0
                  THEN /\ mainpc' = "returned"
                       /\ err' = ErrorOf("failed to remove compiled packages",
                                         gathered.packages[failAt].fp)
                       /\ UNCHANGED <<buckets, jobs>>
                  ELSE IF Len(culled.packages) = 0
                  THEN /\ mainpc' = "returned"
                       /\ UNCHANGED <<buckets, jobs, err>>
                  ELSE /\ buckets' = createDepBuckets(SortPackages(culled.packages))
                       /\ jobs' = [j \in 1..Len(buckets') |-> QueuedJob]
                       /\ mainpc' = "sync"
                       /\ UNCHANGED err
    /\ hist' = [hist EXCEPT !.received = [j \in DOMAIN jobs' |-> 0],
                            !.exists = [j \in DOMAIN jobs' |-> "unasked"]]
    /\ UNCHANGED <<inputs, result, killed>>

\* ------------------------------------------------------------------------
\* The worker pool and compileJob.Run
\* ------------------------------------------------------------------------

Running == {j \in DOMAIN jobs : jobs[j].pc \notin {"queued", "done"}}

WorkersRun == mainpc \in {"sync", "handle"}

\* a Run that looks at killCh before every step
AfterDepKillFirst(j, i) ==
    IF killed THEN [pc |-> "send", dep |-> 0, res |-> errWorkerAbort]
    ELSE IF i > Len(buckets[j].deps)
    THEN [pc |-> "run", dep |-> 0, res |-> NoError]
    ELSE [pc |-> "wait", dep |-> i, res |-> NoError]

\* the next dependency the job waits for, or the compile step when none is left
AfterDep(j, i) ==
    IF i > Len(buckets[j].deps)
    THEN [pc |-> "run", dep |-> 0, res |-> NoError]
    ELSE [pc |-> "wait", dep |-> i, res |-> NoError]

\* worker.RunUntilDone starts the jobs in queue order, at most MaxJobs at a time;
\* Run falls through the wait loop when the package has no dependencies
CanStart(j) ==
    /\ WorkersRun
    /\ jobs[j].pc = "queued"
    /\ \A i \in 1..(j - 1) : jobs[i].pc # "queued"
    /\ Cardinality(Running) < workerCount

StartJob(j) ==
    /\ CanStart(j)
    /\ jobs' = [jobs EXCEPT ![j] = AfterDep(j, 1)]
    /\ hist' = IF killed /\ buckets[j].deps = <<>>
               THEN [hist EXCEPT !.lateGate = @ \cup {j}] ELSE hist
    /\ UNCHANGED <<inputs, mainpc, signalDependencies, buckets, result, killed, err>>

\* a kill case that sends the abort and falls through to the compile step
OnKillNoReturn(j) == [pc |-> "sendErr", dep |-> 0, res |-> errWorkerAbort]

\* what the job does once it took the case <-j.killCh of the select
OnKill(j) == [pc |-> "send", dep |-> 0, res |-> errWorkerAbort]

\* select: case <-j.killCh
WaitKilled(j) ==
    /\ jobs[j].pc = "wait"
    /\ killed
    /\ jobs' = [jobs EXCEPT ![j] = OnKill(j)]
    /\ hist' = [hist EXCEPT !.aborted = @ \cup {j}]
    /\ UNCHANGED <<inputs, mainpc, signalDependencies, buckets, result, killed, err>>

\* a wait that takes an open channel for a closed one
DepReadyOpen(sig, fp) == fp \in DOMAIN sig

\* <-c.signalDependencies[dep.Fingerprint] is ready: the channel exists and is closed
DepReady(sig, fp) == fp \in DOMAIN sig /\ sig[fp] = "closed"

\* select: case <-c.signalDependencies[dep.Fingerprint]
\* (the case <-time.After only prints and selects again)
WaitDepDone(j) ==
    /\ jobs[j].pc = "wait"
    /\ DepReady(signalDependencies, buckets[j].deps[jobs[j].dep])
    /\ jobs' = [jobs EXCEPT ![j] = AfterDep(j, jobs[j].dep + 1)]
    /\ hist' = IF killed /\ jobs'[j].pc = "run"
               THEN [hist EXCEPT !.lateGate = @ \cup {j}] ELSE hist
    /\ UNCHANGED <<inputs, mainpc, signalDependencies, buckets, result, killed, err>>

\* an upload to every cache, also one that is read-only
ShouldUploadAnyCache(workerOk) == workerOk /\ packageStorage # "none"

\* workerErr == nil && c.packageStorage != nil && c.packageStorage.ReadOnly == false
ShouldUpload(workerOk) == workerOk /\ packageStorage = "rw"

\* c.compilePackage and, when it succeeds and the cache is writable, Upload:
\* the job goes on to send the outcome; exists is what Exists answered
CompileAndUpload(j, exists) ==
    \E compileOk \in BOOLEAN, uploadOk \in BOOLEAN :
        /\ ShouldUpload(compileOk) \/ uploadOk
        /\ jobs' = [jobs EXCEPT ![j] =
               [pc |-> "send", dep |-> 0,
                res |-> IF ~compileOk THEN ErrorOf("compile", buckets[j].fp)
                        ELSE IF ~uploadOk THEN ErrorOf("upload", buckets[j].fp)
                        ELSE NoError]]
        /\ hist' = [hist EXCEPT !.started = @ \cup {j},
                                !.compileCount[buckets[j].fp] = @ + 1,
                                !.exists[j] = exists,
                                !.compiledOk = IF compileOk THEN @ \cup {j} ELSE @,
                                !.uploads = IF ShouldUpload(compileOk) THEN @ \cup {j} ELSE @]

\* Run past the wait loop when no cache is configured
RunNoCache(j) ==
    /\ jobs[j].pc = "run"
    /\ packageStorage = "none"
    /\ CompileAndUpload(j, "no cache")
    /\ UNCHANGED <<inputs, mainpc, signalDependencies, buckets, result, killed, err>>

\* Run past the wait loop, packageStorage.Exists returns (false, nil)
RunCacheMiss(j) ==
    /\ jobs[j].pc = "run"
    /\ packageStorage # "none"
    /\ CompileAndUpload(j, "miss")
    /\ UNCHANGED <<inputs, mainpc, signalDependencies, buckets, result, killed, err>>

\* Run past the wait loop, packageStorage.Exists returns (true, nil): Download
RunCacheHit(j) ==
    /\ jobs[j].pc = "run"
    /\ packageStorage # "none"
    /\ \E downloadOk \in BOOLEAN :
          jobs' = [jobs EXCEPT ![j] =
               [pc |-> "send", dep |-> 0,
                res |-> IF downloadOk THEN NoError
                        ELSE ErrorOf("download", buckets[j].fp)]]
    /\ hist' = [hist EXCEPT !.started = @ \cup {j}, !.exists[j] = "hit",
                            !.downloads = @ \cup {j}]
    /\ UNCHANGED <<inputs, mainpc, signalDependencies, buckets, result, killed, err>>

\* Run past the wait loop, packageStorage.Exists returns an error: the job sends
\* the error and does not return
RunCacheError(j) ==
    /\ jobs[j].pc = "run"
    /\ packageStorage # "none"
    /\ jobs' = [jobs EXCEPT ![j] =
           [pc |-> "sendErr", dep |-> 0, res |-> ErrorOf("exists", buckets[j].fp)]]
    /\ hist' = [hist EXCEPT !.started = @ \cup {j}, !.exists[j] = "error"]
    /\ UNCHANGED <<inputs, mainpc, signalDependencies, buckets, result, killed, err>>

\* after the Exists error was sent: exists is false, the job compiles
RunAfterCacheError(j) ==
    /\ jobs[j].pc = "compile"
    /\ CompileAndUpload(j, "error")
    /\ UNCHANGED <<inputs, mainpc, signalDependencies, buckets, result, killed, err>>

\* j.doneCh <- compileResult{...}: doneCh is unbuffered, the send completes when
\* the synchronizer receives in `for result := range doneCh`
SendResult(j) ==
    /\ mainpc = "sync"
    /\ jobs[j].pc \in {"send", "sendErr"}
    /\ result' = [job |-> j, err |-> jobs[j].res]
    /\ mainpc' = "handle"
    /\ jobs' = [jobs EXCEPT ![j] =
           [pc |-> IF jobs[j].pc = "sendErr" THEN "compile" ELSE "done",
            dep |-> 0, res |-> NoError]]
    /\ UNCHANGED <<inputs, signalDependencies, buckets, killed, err, hist>>

\* ------------------------------------------------------------------------
\* The synchronizer
\* ------------------------------------------------------------------------

\* err = result.err
RecordError(old, new) == new

\* a synchronizer that closes killCh on every failure
CloseKillAlways(wasKilled) == TRUE

\* if !killed { close(killCh); killed = true }
CloseKill(wasKilled) == ~wasKilled

\* the body of `for result := range doneCh`
SyncHandle ==
    /\ mainpc = "handle"
    /\ result' = NoResult
    /\ IF result.err = NoError
       THEN LET fp == buckets[result.job].fp
            IN /\ signalDependencies' = Close(signalDependencies, fp)
               /\ mainpc' = IF CanClose(signalDependencies, fp) THEN "sync" ELSE "panic"
               /\ hist' = [hist EXCEPT !.observedOk = @ \cup {fp},
                                       !.received[result.job] = @ + 1,
                                       !.closes[fp] = @ + 1]
               /\ UNCHANGED <<killed, err>>
       ELSE /\ err' = RecordError(err, result.err)
            /\ killed' = TRUE
            /\ mainpc' = IF CloseKill(killed) /\ killed THEN "panic" ELSE "sync"
            /\ hist' = [hist EXCEPT !.firstFailure =
                                          IF @ = NoError THEN result.err ELSE @,
                                    !.received[result.job] = @ + 1,
                                    !.killCloses = IF CloseKill(killed) THEN @ + 1 ELSE @,
                                    !.failed = @ \cup {result.job}]
            /\ UNCHANGED signalDependencies
    /\ UNCHANGED <<inputs, buckets, jobs>>

\* a doneCh that is closed once the queue is drained
AllStarted == \A j \in DOMAIN jobs : jobs[j].pc # "queued"

\* every job has returned
AllDone == \A j \in DOMAIN jobs : jobs[j].pc = "done"

\* worker.RunUntilDone returns once every job has run, doneCh is closed, the range
\* loop ends and Compile returns err
CompileReturn ==
    /\ mainpc = "sync"
    /\ AllDone
    /\ mainpc' = "returned"
    /\ UNCHANGED <<inputs, signalDependencies, buckets, jobs, result, killed, err, hist>>

CompileNext ==
    \/ CompileSetup
    \/ \E j \in DOMAIN jobs : StartJob(j)
    \/ \E j \in DOMAIN jobs : WaitKilled(j)
    \/ \E j \in DOMAIN jobs : WaitDepDone(j)
    \/ \E j \in DOMAIN jobs : RunNoCache(j)
    \/ \E j \in DOMAIN jobs : RunCacheMiss(j)
    \/ \E j \in DOMAIN jobs : RunCacheHit(j)
    \/ \E j \in DOMAIN jobs : RunCacheError(j)
    \/ \E j \in DOMAIN jobs : RunAfterCacheError(j)
    \/ \E j \in DOMAIN jobs : SendResult(j)
    \/ SyncHandle
    \/ CompileReturn

SpecCompile == CompileInit /\ [][CompileNext]_vars

\* ------------------------------------------------------------------------
\* Properties of Compile
\* ------------------------------------------------------------------------

\* the fingerprints of the packages that were queued (the input of the run)
InputFps == {buckets[j].fp : j \in DOMAIN buckets}

\* the dependencies of job j that are in the input
InputDeps(j) == Range(buckets[j].deps) \cap InputFps

\* C1: a job begins its compile action (cache lookup or compilePackage) only after
\* each of its dependencies that is in the input has had a success result handled
\* by the synchronizer, which closed the dependency's signal channel
C1_CompileAfterDeps ==
    \A j \in hist.started :
        \A dep \in InputDeps(j) :
            /\ dep \in hist.observedOk
            /\ signalDependencies[dep] = "closed"

C1_Witness ==
    \E j \in hist.started : Cardinality(InputDeps(j)) >= 2

\* C2: packages of one fingerprint are compiled at most once: one job is queued per
\* fingerprint, it is the package of the first release that holds the fingerprint,
\* and compilePackage is invoked at most once per fingerprint, exactly once when
\* Compile returns without error, without a cache, for a fingerprint that both
\* releases hold and the local store does not
C2_CompiledOnce ==
    /\ \A f \in Fingerprints : hist.compileCount[f] <= 1
    /\ \A i, j \in DOMAIN buckets : buckets[i].fp = buckets[j].fp => i = j
    /\ \A j \in DOMAIN buckets : buckets[j] = releases[1][buckets[j].fp]
    /\ (mainpc = "returned" /\ err = NoError /\ packageStorage = "none")
          => \A f \in Fingerprints \ compiledStore : hist.compileCount[f] = 1

C2_Witness ==
    /\ mainpc = "returned" /\ err = NoError /\ packageStorage = "none"
    /\ \E f \in Fingerprints :
          /\ hist.compileCount[f] = 1
          /\ \A r \in DOMAIN releases : \E i \in DOMAIN releases[r] : releases[r][i].fp = f

\* C3: when packages failed, Compile returns the first failure the synchronizer
\* observed; later failures do not replace it
C3_FirstFailureReturned ==
    (mainpc = "returned" /\ hist.firstFailure # NoError) => err = hist.firstFailure

\* C4: when Compile returns, every submitted job has returned from Run and the
\* synchronizer has handled a result of it; none waits, compiles or is sending
C4_ReturnAfterAllResults ==
    mainpc = "returned" =>
        /\ result = NoResult
        /\ \A j \in DOMAIN jobs : jobs[j].pc = "done" /\ hist.received[j] >= 1

C4_Witness ==
    /\ mainpc = "returned"
    /\ Len(jobs) = NumPkgs
    /\ killed
    /\ hist.aborted # {}

\* some step of Compile, of the synchronizer or of a job can be taken
CanStep ==
    \/ mainpc \in {"start", "handle"}
    \/ mainpc = "sync" /\ AllDone
    \/ \E j \in DOMAIN jobs :
          \/ CanStart(j)
          \/ jobs[j].pc = "wait" /\ killed
          \/ jobs[j].pc = "wait"
                /\ DepReady(signalDependencies, buckets[j].deps[jobs[j].dep])
          \/ jobs[j].pc \in {"run", "compile"}
          \/ jobs[j].pc \in {"send", "sendErr"} /\ mainpc = "sync"

\* C5: Compile always returns: in no reachable state short of the return is every
\* worker stuck (waiting for a signal that will not come, or sending a result
\* nobody receives) with no step of Compile left to take
C5_NoWorkerStuck ==
    mainpc \notin {"returned", "panic"} => CanStep

\* the queue createDepBuckets returned holds a package before one of its dependencies
QueueOutOfOrder ==
    \E i, j \in DOMAIN buckets : i < j /\ buckets[j].fp \in Range(buckets[i].deps)

\* no job is stuck when the queue is in topological order
StuckOnlyOutOfOrder ==
    (mainpc \notin {"returned", "panic"} /\ ~QueueOutOfOrder) => CanStep

\* the model has no step that C5's CanStep does not know
CanStepIsEnabled == [][CanStep]_vars

\* C6 as stated: a job that took the kill case never compiles, and the jobs that
\* compile after the kill are those that were past their wait gate when it came
C6_OnlyPastGateCompile ==
    /\ hist.aborted \cap hist.started = {}
    /\ hist.lateGate \cap hist.started = {}

\* C6: a job that took the kill case at its wait gate never begins the compile
\* action: it sends the result "worker aborted" and returns. (A job that did not
\* take the kill case may still compile, also when it passes its gate, or starts
\* without dependencies, after the kill channel was closed.)
C6_AbortedNeverCompiles ==
    \A j \in hist.aborted :
        /\ j \notin hist.started
        /\ hist.compileCount[buckets[j].fp] = 0
        /\ jobs[j].pc \in {"send", "done"}
        /\ jobs[j].pc = "send" => jobs[j].res = errWorkerAbort
        /\ killed

C6_Witness ==
    \E j \in hist.aborted :
        /\ jobs[j].pc = "done"
        /\ hist.received[j] = 1
        /\ \E k \in hist.lateGate : k \in hist.started

\* ------------------------------------------------------------------------
\* Properties of the queue (createDepBuckets)
\* ------------------------------------------------------------------------

\* C15: the queue createDepBuckets returns is a topological order of its input:
\* every package comes after each of its dependencies that is in the queue too
\* (a dependency that is not in the input is compiled already and is ignored).
C15_QueueTopological ==
    \A i, j \in DOMAIN buckets :
        buckets[i].fp \in Range(buckets[j].deps) => i < j

\* the list createDepBuckets was called with: the packages of the first release
\* that the local store does not hold, sorted by name
QueueInput ==
    LET fps == SetToSeq(Fingerprints \ compiledStore)
    IN [i \in DOMAIN fps |-> releases[1][fps[i]]]

\* the positions in the list P of the dependencies of P[i]
DepsIn(P, i) == {k \in DOMAIN P : P[k].fp \in Range(P[i].deps)}

Max(S) == CHOOSE x \in S : \A y \in S : y <= x

RECURSIVE RoundOf(_, _)
\* the topological round of P[i]: 1 without dependencies in P, else one more than
\* the latest round of its dependencies
RoundOf(P, i) ==
    IF DepsIn(P, i) = {} THEN 1
    ELSE 1 + Max({RoundOf(P, k) : k \in DepsIn(P, i)})

RECURSIVE PassOf(_, _)
\* the pass over P that reaches P[i] with all its dependencies emitted: a
\* dependency earlier in the list is emitted in the same pass at the latest
PassOf(P, i) ==
    IF DepsIn(P, i) = {} THEN 1
    ELSE Max({IF k < i THEN PassOf(P, k) ELSE PassOf(P, k) + 1 : k \in DepsIn(P, i)})

\* lexicographic order of triples of numbers
Before(a, b) ==
    \/ a[1] < b[1]
    \/ a[1] = b[1] /\ a[2] < b[2]
    \/ a[1] = b[1] /\ a[2] = b[2] /\ a[3] < b[3]

RECURSIVE OrderedBy(_, _, _)
\* the packages of P at the positions S, ordered by their keys
OrderedBy(P, S, key) ==
    IF S = {} THEN <<>>
    ELSE LET first == CHOOSE i \in S : \A k \in S \ {i} : Before(key[i], key[k])
         IN <<P[first]>> \o OrderedBy(P, S \ {first}, key)

RubyRank(pkg) == IF pkg.ruby THEN 0 ELSE 1

\* the order C16 states: round, then ruby-2.* first within the round, then input order
RoundOrder(P) ==
    OrderedBy(P, DOMAIN P, [i \in DOMAIN P |-> <<RoundOf(P, i), RubyRank(P[i]), i>>])

\* every ruby-2.* package first, then the others, each group by pass and input order
PassOrder(P) ==
    OrderedBy(P, DOMAIN P, [i \in DOMAIN P |-> <<RubyRank(P[i]), PassOf(P, i), i>>])

\* the input list A (no deps), B (dep A), ruby-2.6 (no deps), C (dep B)
ExampleInput ==
    <<Pkg(1, 1, FALSE, 1, <<>>), Pkg(1, 2, FALSE, 2, <<1>>),
      Pkg(1, 4, TRUE, 3, <<>>), Pkg(1, 3, FALSE, 4, <<2>>)>>

\* createDepBuckets has just returned: the jobs are queued, none has started
JustQueued == mainpc = "sync" /\ \A j \in DOMAIN jobs : jobs[j].pc = "queued"

C17_OneResultPerJob ==
    \A j \in DOMAIN jobs :
        /\ hist.received[j] <= 1
        /\ mainpc = "returned" => hist.received[j] = 1

\* the fingerprints gatherPackages made a signal channel for
GatheredFps == UNION {{releases[r][i].fp : i \in DOMAIN releases[r]} : r \in DOMAIN releases}

\* the channels are closed at most once, the signals by the synchronizer, once
\* per fingerprint it saw a success of
ClosedOnce ==
    mainpc # "start" =>
        /\ mainpc # "panic"
        /\ DOMAIN signalDependencies = GatheredFps
        /\ \A f \in Fingerprints :
              /\ hist.closes[f] = IF f \in hist.observedOk THEN 1 ELSE 0
              /\ hist.closes[f] = 1 => signalDependencies[f] = "closed"
        /\ hist.killCloses <= 1
        /\ killed <=> hist.killCloses = 1

\* while the workers run the map keeps its keys, and a channel changes only in
\* the synchronizer's handling of a result
MapReadOnly ==
    WorkersRun =>
        /\ DOMAIN signalDependencies' = DOMAIN signalDependencies
        /\ signalDependencies' # signalDependencies => mainpc = "handle"
        /\ killed' # killed => mainpc = "handle"

\* C18: while the workers run, the signal map is not written; every close of a
\* signal channel at run time is the synchronizer's, exactly one per fingerprint
\* with a success result; no signal channel and not the kill channel is closed
\* twice, in any interleaving and for any mix of results.
C18_ChannelsClosedOnce == []ClosedOnce /\ [][MapReadOnly]_vars

\* a run with a success and two failures: the second failure finds killCh closed
C18_Witness ==
    /\ mainpc = "returned"
    /\ hist.observedOk # {}
    /\ hist.killCloses = 1
    /\ \E j \in DOMAIN jobs : hist.received[j] >= 1 /\ j \in hist.aborted
    /\ \E f \in compiledStore : signalDependencies[f] = "closed" /\ hist.closes[f] = 0

\* C19: a queued package with an empty dependency list never checks the kill
\* channel: it never waits, never aborts and never produces "worker aborted",
\* also when the kill channel was closed before it started.
C19_NoDepsIgnoreKill ==
    \A j \in DOMAIN jobs :
        buckets[j].deps = <<>> =>
            /\ j \notin hist.aborted
            /\ jobs[j].pc \in {"queued", "run", "send", "sendErr", "compile", "done"}
            /\ jobs[j].res # errWorkerAbort
            /\ result.job = j => result.err # errWorkerAbort

\* a package without dependencies started after the kill and went on to compile
C19_Witness ==
    \E j \in hist.lateGate \cap hist.started :
        /\ buckets[j].deps = <<>>
        /\ killed
        /\ hist.compileCount[buckets[j].fp] = 1

\* setup ran to its end: every gathered package was looked up in the local store
SetupDone ==
    \/ mainpc \in {"sync", "handle"}
    \/ mainpc = "returned" /\ err.kind # "failed to remove compiled packages"

\* C20: a package the local store holds before the run is removed from the input
\* (not queued, not compiled, not looked up in the cache), its signal channel is
\* closed during setup, no dependent waits for it, and createDepBuckets does not
\* count it as a dependency.
C20_CompiledRemoved ==
    SetupDone =>
        /\ \A f \in compiledStore :
              /\ f \notin InputFps
              /\ hist.compileCount[f] = 0
              /\ signalDependencies[f] = "closed"
              /\ hist.closes[f] = 0
              /\ \A j \in DOMAIN jobs :
                    (jobs[j].pc = "wait" /\ buckets[j].deps[jobs[j].dep] = f)
                        => DepReady(signalDependencies, f)
        /\ InputFps \subseteq Fingerprints \ compiledStore
        /\ LET dc0 == InitDepCount(buckets)
               cnt == CountDeps(buckets, [depCount |-> dc0,
                                          revDeps |-> [fp \in DOMAIN dc0 |-> <<>>]])
           IN \A j \in DOMAIN buckets :
                 cnt.depCount[buckets[j].fp]
                     = Cardinality(Range(buckets[j].deps) \ compiledStore)

\* a package compiled although one of its dependencies is only in the local store
C20_Witness ==
    /\ mainpc = "returned"
    /\ err = NoError
    /\ \E j \in hist.started :
          /\ Range(buckets[j].deps) \cap compiledStore # {}
          /\ Range(buckets[j].deps) \ compiledStore # {}
          /\ hist.compileCount[buckets[j].fp] = 1

\* ------------------------------------------------------------------------
\* Properties of the cache
\* ------------------------------------------------------------------------

\* the jobs whose Run is past the cache lookup and the download or compilation
PastCache == {j \in DOMAIN jobs : hist.exists[j] # "unasked" /\ jobs[j].pc \in {"send", "done"}}

\* C21: a package past its wait gate whose fingerprint the configured cache
\* reports present is downloaded and neither compiled nor uploaded; every other
\* one is compiled, and uploaded only when the compilation succeeded and the
\* cache is configured and writable.
C21_CacheDecides ==
    \A j \in PastCache :
        /\ hist.exists[j] = "hit" => packageStorage # "none"
        /\ IF hist.exists[j] = "hit"
           THEN /\ j \in hist.downloads
                /\ hist.compileCount[buckets[j].fp] = 0
                /\ j \notin hist.uploads
           ELSE /\ j \notin hist.downloads
                /\ hist.compileCount[buckets[j].fp] = 1
                /\ j \in hist.uploads => (j \in hist.compiledOk /\ packageStorage = "rw")
                /\ (j \in hist.compiledOk /\ packageStorage = "rw") => j \in hist.uploads

\* one package downloaded, one compiled and uploaded, one whose compilation
\* failed and that was not uploaded
C21_Witness ==
    /\ mainpc = "returned"
    /\ packageStorage = "rw"
    /\ \E j \in PastCache : hist.exists[j] = "hit"
    /\ \E j \in PastCache : hist.exists[j] = "miss" /\ j \in hist.uploads
    /\ \E j \in PastCache : hist.exists[j] = "miss" /\ j \notin hist.compiledOk

\* C22: an error of the cache is the package's failure and is not recovered
\* from: after an error of Exists, Download or Upload the job does not compile
\* the package; only a miss that Exists reports without an error leads to the
\* compilation.
C22_CacheErrorNoCompile ==
    \A j \in DOMAIN jobs :
        /\ (packageStorage # "none" /\ hist.compileCount[buckets[j].fp] > 0)
              => hist.exists[j] = "miss"
        /\ hist.exists[j] = "error" => hist.received[j] <= 1

\* the errors of Download and Upload are not recovered from
DownloadUploadErrorsFinal ==
    \A j \in DOMAIN jobs :
        /\ j \in hist.downloads => hist.compileCount[buckets[j].fp] = 0
        /\ hist.compileCount[buckets[j].fp] <= 1
        /\ Cardinality({j} \cap hist.uploads) <= hist.compileCount[buckets[j].fp]

\* the jobs whose package depends, directly or through others, on the one of k
DependentsOf(k) ==
    LET d == [f \in Fingerprints |->
                UNION {Range(buckets[i].deps) : i \in {i \in DOMAIN buckets : buckets[i].fp = f}}]
    IN  {j \in DOMAIN jobs : buckets[k].fp \in DepClosure(d, d[buckets[j].fp], NumPkgs)}

\* C28: when the result of a package is a failure, no package that depends on
\* it starts compiling in this call: the signal of the failed package is never
\* closed, and every dependent ends with the result "worker aborted".
C28_FailureBlocksDependents ==
    \A k \in hist.failed :
        /\ signalDependencies[buckets[k].fp] = "open"
        /\ \A j \in DependentsOf(k) :
              /\ j \notin hist.started
              /\ mainpc = "returned" => j \in hist.aborted

\* the same, for the packages whose failure is not an error of Exists
FailureBlocksUnlessExistsError ==
    \A k \in hist.failed :
        hist.exists[k] # "error" =>
            /\ signalDependencies[buckets[k].fp] = "open"
            /\ \A j \in DependentsOf(k) :
                  /\ j \notin hist.started
                  /\ mainpc = "returned" => j \in hist.aborted

\* ========================================================================
\* createDepBuckets, one pass of its outer loop per step
\* ========================================================================

\* every dependency relation over the fingerprints, cycles and packages that
\* depend on themselves included
AnyDepGraphs == [Fingerprints -> SUBSET Fingerprints]

\* a list of packages of pairwise distinct fingerprints, in the given order; a
\* dependency that is not in the list is a compiled package
DepInputOf(order, d, rubyFp) ==
    [i \in DOMAIN order |->
        Pkg(1, order[i], order[i] = rubyFp, order[i], SetToSeq(d[order[i]]))]

\* the first two loops have not run
NotCounted ==
    [pc |-> "count", depCount |-> <<>>, revDeps |-> <<>>, keepRunning |-> FALSE,
     rubies |-> <<>>, buckets |-> <<>>, queue |-> <<>>]

QueueInit ==
    /\ \E S \in SUBSET Fingerprints, d \in AnyDepGraphs, rubyFp \in 0..NumPkgs :
          \E order \in Perms(S) : depInput = DepInputOf(order, d, rubyFp)
    /\ depLoop = NotCounted
    /\ CompileIdle
    /\ LinksIdle
    /\ AggIdle
    /\ RunIdle
    /\ PropsIdle
    /\ DevIdle
    /\ StagesIdle

\* the two loops that fill depCount and revDeps; keepRunning := true
CountDependencies ==
    /\ depLoop.pc = "count"
    /\ LET dc0 == InitDepCount(depInput)
           cnt == CountDeps(depInput, [depCount |-> dc0,
                                       revDeps  |-> [fp \in DOMAIN dc0 |-> <<>>]])
       IN depLoop' = [depLoop EXCEPT !.pc = "loop", !.depCount = cnt.depCount,
                                     !.revDeps = cnt.revDeps, !.keepRunning = TRUE]
    /\ UNCHANGED <<depInput, compileVars, linkVars, aggVars, runVars, propVars, devVars,
                   stageVars>>

\* a loop that leaves the flag as it is
KeepFlag(st) == st

\* keepRunning = false, at the head of the loop body
ResetFlag(st) == [st EXCEPT !.keepRunning = FALSE]

\* one iteration of for keepRunning { ... }
DepPass ==
    /\ depLoop.pc = "loop"
    /\ depLoop.keepRunning
    /\ depLoop' = BucketPass(depInput, depLoop.revDeps, ResetFlag(depLoop))
    /\ UNCHANGED <<depInput, compileVars, linkVars, aggVars, runVars, propVars, devVars,
                   stageVars>>

\* the loop is left: buckets = append(rubies, buckets...); return buckets
DepReturn ==
    /\ depLoop.pc = "loop"
    /\ ~depLoop.keepRunning
    /\ depLoop' = [depLoop EXCEPT !.pc = "returned", !.queue = depLoop.rubies \o depLoop.buckets]
    /\ UNCHANGED <<depInput, compileVars, linkVars, aggVars, runVars, propVars, devVars,
                   stageVars>>

QueueNext ==
    \/ CountDependencies
    \/ DepPass
    \/ DepReturn

SpecQueue == QueueInit /\ [][QueueNext]_vars

\* createDepBuckets is one sequential function: a step that can be taken is taken
SpecQueueFair == SpecQueue /\ WF_vars(QueueNext)

\* the dependencies among the packages of the list
InputGraph ==
    [f \in Fingerprints |->
        UNION {Range(depInput[i].deps) \cap {depInput[k].fp : k \in DOMAIN depInput} :
               i \in {i \in DOMAIN depInput : depInput[i].fp = f}}]

\* Q holds every element of P once and nothing else
IsPermutation(Q, P) ==
    /\ Len(Q) = Len(P)
    /\ \A i \in DOMAIN P : Cardinality({k \in DOMAIN Q : Q[k] = P[i]}) = 1

DepReturned == depLoop.pc = "returned"

\* C29: for an input without a dependency cycle and with pairwise distinct
\* fingerprints the queue createDepBuckets returns is a permutation of the
\* input; for every input, also one with a cycle, createDepBuckets returns.
C29_PermutationAndTermination ==
    /\ [](DepReturned /\ Acyclic(InputGraph) => IsPermutation(depLoop.queue, depInput))
    /\ <>DepReturned

\* three packages, the first of the list depending on the last, queued in
\* another order than the one of the list
C29_Witness ==
    /\ DepReturned
    /\ Len(depInput) = NumPkgs
    /\ depInput[NumPkgs].fp \in Range(depInput[1].deps)
    /\ Acyclic(InputGraph)
    /\ depLoop.queue # depInput

\* the packages on a dependency cycle, and the ones that depend on them, are
\* not in the returned queue; every other package is, once
CyclesDropped ==
    DepReturned =>
        \A i \in DOMAIN depInput :
            LET fp == depInput[i].fp
                behind == DepClosure(InputGraph, {fp}, NumPkgs)
                onCycle == \E f \in behind :
                              f \in DepClosure(InputGraph, InputGraph[f], NumPkgs)
            IN Cardinality({k \in DOMAIN depLoop.queue : depLoop.queue[k] = depInput[i]})
                  = IF onCycle THEN 0 ELSE 1

\* an input with a cycle was given and createDepBuckets returned
CycleReturned == DepReturned /\ ~Acyclic(InputGraph) /\ Len(depLoop.queue) = 1

\* the passes, taken one by one, give the queue Compile works with
SamePassByPass == DepReturned => depLoop.queue = createDepBuckets(depInput)

\* ========================================================================
\* Link resolution (resolver.ResolveLinks)
\* ========================================================================

\* ------------------------------------------------------------------------
\* Go maps: functions on their key set; `range` walks the keys in an order the
\* run time chooses
\* ------------------------------------------------------------------------

MapPut(f, k, v) == [x \in (DOMAIN f) \cup {k} |-> IF x = k THEN v ELSE f[x]]

MapDelete(f, k) == [x \in (DOMAIN f) \ {k} |-> f[x]]

\* f[k], the zero value when k is no key
MapGet(f, k, zero) == IF k \in DOMAIN f THEN f[k] ELSE zero

\* ------------------------------------------------------------------------
\* model.JobLinkInfo, model.JobConsumesInfo, validation.Error
\* ------------------------------------------------------------------------

LinkInfo(name, type, role, job, service) ==
    [Name |-> name, Type |-> type, RoleName |-> role, JobName |-> job,
     ServiceName |-> service]

\* model.JobConsumesInfo{JobLinkInfo: link}
ConsumesInfo(link, alias, ignore, optional) ==
    [Name |-> link.Name, Type |-> link.Type, RoleName |-> link.RoleName,
     JobName |-> link.JobName, ServiceName |-> link.ServiceName,
     Alias |-> alias, Ignore |-> ignore, Optional |-> optional]

\* the zero value of model.JobConsumesInfo
ZeroConsumes == ConsumesInfo(LinkInfo("", "", "", "", <<>>), "", FALSE, FALSE)

\* validation.NotFound, Invalid, Required, InternalError: kind, field path, detail
ValidationError(kind, field, detail) == [kind |-> kind, field |-> field, detail |-> detail]

\* the field path `instance_group[g].job[j].consumes[name]`
ConsumesField(g, j, name) == <<"instance_group", g, "job", j, "consumes", name>>

\* the job references of m, in manifest order, as <<group index, job index>>
RECURSIVE JobsFrom(_, _, _)
JobsFrom(m, gi, ji) ==
    IF gi > Len(m) THEN <<>>
    ELSE IF ji > Len(m[gi].JobReferences) THEN JobsFrom(m, gi + 1, 1)
    ELSE <<<<gi, ji>>>> \o JobsFrom(m, gi, ji + 1)

JobRefs(m) == JobsFrom(m, 1, 1)

JobRefAt(m, pos) == m[pos[1]].JobReferences[pos[2]]

\* util.ConvertNameToKey: the key made of a name, kept apart from the name itself
ConvertNameToKey(name) == <<"key", name>>

\* serviceName of a job reference: the configured one, else "<group>-<job>"
ServiceNameOf(g, jr) ==
    IF jr.ServiceName # <<>> THEN jr.ServiceName
    ELSE <<ConvertNameToKey(g.Name), ConvertNameToKey(jr.Name)>>

\* ------------------------------------------------------------------------
\* Pass A: providers by name and by type
\* ------------------------------------------------------------------------

RECURSIVE AvailableLoop(_, _, _, _)
\* for availableName, availableProvider := range jobReference.Job.AvailableProviders;
\* st is [available, byType]
AvailableLoop(names, g, jr, st) ==
    IF names = <<>> THEN st
    ELSE LET availableName == Head(names)
             availableProvider == jr.Job.AvailableProviders[availableName]
             info == LinkInfo(availableProvider.Name, availableProvider.Type,
                              g.Name, jr.Name, ServiceNameOf(g, jr))
         IN AvailableLoop(Tail(names), g, jr,
                [available |-> Append(st.available, availableName),
                 byType |-> IF availableProvider.Type # ""
                            THEN MapPut(st.byType, availableProvider.Type,
                                     Append(MapGet(st.byType, availableProvider.Type, <<>>),
                                            info))
                            ELSE st.byType])

\* the key a provider is published under: the alias where one is set
ProviderKey(name, provider) == IF provider.Alias # "" THEN provider.Alias ELSE name

RECURSIVE ExportedLoop(_, _, _, _, _)
\* for name, provider := range jobReference.ExportedProvides; st is [errors, byName]
ExportedLoop(names, g, jr, available, st) ==
    IF names = <<>> THEN st
    ELSE LET name == Head(names)
             provider == jr.ExportedProvides[name]
         IN IF name \notin DOMAIN jr.Job.AvailableProviders
            THEN ExportedLoop(Tail(names), g, jr, available,
                     [st EXCEPT !.errors = Append(@, ValidationError("NotFound",
                          <<"instance_groups", g.Name, "jobs", jr.Name, "provides", name>>,
                          available))])
            ELSE LET info == jr.Job.AvailableProviders[name]
                 IN ExportedLoop(Tail(names), g, jr, available,
                        [st EXCEPT !.byName = MapPut(@, ProviderKey(name, provider),
                             LinkInfo(info.Name, info.Type, g.Name, jr.Name,
                                      ServiceNameOf(g, jr)))])

RECURSIVE ProvidersPass(_, _, _, _)
\* the first loop over instance groups and job references; ords gives, per job
\* reference, the orders of its two map walks; st is [errors, byName, byType]
ProvidersPass(m, refs, ords, st) ==
    IF refs = <<>> THEN st
    ELSE LET g == m[Head(refs)[1]]
             jr == JobRefAt(m, Head(refs))
             av == AvailableLoop(Head(ords).avail, g, jr,
                                 [available |-> <<>>, byType |-> st.byType])
             ex == ExportedLoop(Head(ords).export, g, jr, av.available,
                                [errors |-> st.errors, byName |-> st.byName])
         IN ProvidersPass(m, Tail(refs), Tail(ords),
                [errors |-> ex.errors, byName |-> ex.byName, byType |-> av.byType])

\* ------------------------------------------------------------------------
\* Pass B: consumers
\* ------------------------------------------------------------------------

RECURSIVE RemoveFirstNamed(_, _)
\* drop the first expected consumer of the given name
RemoveFirstNamed(expected, name) ==
    IF expected = <<>> THEN <<>>
    ELSE IF Head(expected).Name = name THEN Tail(expected)
    ELSE <<Head(expected)>> \o RemoveFirstNamed(Tail(expected), name)

\* the name an explicit consumer is looked up under
ConsumerAlias(consumerName, consumerInfo) ==
    IF consumerInfo.Alias # "" THEN consumerInfo.Alias ELSE consumerName

RECURSIVE OverrideLoop(_, _, _, _, _)
\* for consumerName, consumerInfo := range jobReference.ResolvedConsumes;
\* st is [errors, rc, expected]
OverrideLoop(names, g, jr, byName, st) ==
    IF names = <<>> THEN st
    ELSE LET consumerName == Head(names)
             consumerInfo == st.rc[consumerName]
             consumerAlias == ConsumerAlias(consumerName, consumerInfo)
         IN IF consumerAlias = ""
            THEN OverrideLoop(Tail(names), g, jr, byName,
                     [st EXCEPT !.errors = Append(@, ValidationError("Invalid",
                          <<"instance_group", g.Name, "job", jr.Name>>, <<"name">>))])
            ELSE IF consumerAlias \notin DOMAIN byName
            THEN OverrideLoop(Tail(names), g, jr, byName,
                     [st EXCEPT !.errors = Append(@, ValidationError("NotFound",
                          ConsumesField(g.Name, jr.Name, consumerName),
                          <<consumerAlias>>))])
            ELSE OverrideLoop(Tail(names), g, jr, byName,
                     [st EXCEPT
                        !.rc = IF consumerInfo.Ignore
                               THEN MapDelete(@, consumerName)
                               ELSE MapPut(@, consumerName,
                                        ConsumesInfo(byName[consumerAlias], "", FALSE, FALSE)),
                        !.expected = RemoveFirstNamed(@, consumerName)])

\* a test that takes the first of several providers of the type
SomeProviderOfType(byType, type) == Len(MapGet(byType, type, <<>>)) >= 1

\* len(providersByType[consumerInfo.Type]) == 1
OnlyProviderOfType(byType, type) == Len(MapGet(byType, type, <<>>)) = 1

\* a resolver that reports no unresolved consumer
MustResolveNever(consumerInfo) == FALSE

\* an unresolved consumer is an error unless it is optional
MustResolve(consumerInfo) == ~consumerInfo.Optional

RECURSIVE ExpectedLoop(_, _, _, _, _, _)
\* for _, consumerInfo := range expectedConsumers; st is [errors, rc]
ExpectedLoop(expected, g, jr, byName, byType, st) ==
    IF expected = <<>> THEN st
    ELSE LET consumerInfo == Head(expected)
             byNameOk == consumerInfo.Name # "" /\ consumerInfo.Name \in DOMAIN byName
             byTypeOk == ~byNameOk /\ OnlyProviderOfType(byType, consumerInfo.Type)
         IN IF byNameOk \/ byTypeOk
            THEN LET provider == IF byNameOk THEN byName[consumerInfo.Name]
                                 ELSE byType[consumerInfo.Type][1]
                     name == IF consumerInfo.Name = "" THEN provider.Name
                             ELSE consumerInfo.Name
                     info == MapGet(st.rc, name, ZeroConsumes)
                 IN ExpectedLoop(Tail(expected), g, jr, byName, byType,
                        [st EXCEPT !.rc = MapPut(@, name,
                             [info EXCEPT !.Name = provider.Name,
                                          !.Type = provider.Type,
                                          !.RoleName = provider.RoleName,
                                          !.JobName = provider.JobName,
                                          !.ServiceName = provider.ServiceName])])
            ELSE IF MustResolve(consumerInfo)
            THEN ExpectedLoop(Tail(expected), g, jr, byName, byType,
                     [st EXCEPT !.errors = Append(@, ValidationError("Required",
                          ConsumesField(g.Name, jr.Name, consumerInfo.Name),
                          <<consumerInfo.Name, consumerInfo.Type>>))])
            ELSE ExpectedLoop(Tail(expected), g, jr, byName, byType, st)

RECURSIVE ConsumersPass(_, _, _, _, _)
\* the second loop over instance groups and job references; st is [errors, m]
ConsumersPass(refs, ords, byName, byType, st) ==
    IF refs = <<>> THEN st
    ELSE LET gi == Head(refs)[1]
             ji == Head(refs)[2]
             g == st.m[gi]
             jr == JobRefAt(st.m, Head(refs))
             over == OverrideLoop(Head(ords).consume, g, jr, byName,
                         [errors |-> st.errors, rc |-> jr.ResolvedConsumes,
                          expected |-> jr.Job.DesiredConsumers])
             done == ExpectedLoop(over.expected, g, jr, byName, byType,
                         [errors |-> over.errors, rc |-> over.rc])
         IN ConsumersPass(Tail(refs), Tail(ords), byName, byType,
                [errors |-> done.errors,
                 m |-> [st.m EXCEPT ![gi].JobReferences[ji].ResolvedConsumes = done.rc]])

\* ------------------------------------------------------------------------
\* recordJobConsumers
\* ------------------------------------------------------------------------

\* RoleManifest.LookupInstanceGroup: the index of the group of that name, 0 for nil
LookupInstanceGroup(m, name) ==
    IF \E i \in DOMAIN m : m[i].Name = name
    THEN CHOOSE i \in DOMAIN m : m[i].Name = name /\ \A k \in 1..(i - 1) : m[k].Name # name
    ELSE 0

\* InstanceGroup.LookupJob: the index of the job reference of that job, 0 for nil
LookupJob(g, name) ==
    LET refs == g.JobReferences
    IN IF \E i \in DOMAIN refs : refs[i].Job.Name = name
       THEN CHOOSE i \in DOMAIN refs :
               refs[i].Job.Name = name /\ \A k \in 1..(i - 1) : refs[k].Job.Name # name
       ELSE 0

\* a provider that keeps no record of its consumers
AppendNothing(by, linkName, linkInfo) == by

\* providerJob.ResolvedConsumedBy[linkName] = append(providerJob.ResolvedConsumedBy[linkName], linkInfo)
AppendConsumedBy(by, linkName, linkInfo) ==
    MapPut(by, linkName, Append(MapGet(by, linkName, <<>>), linkInfo))

RECURSIVE RecordLoop(_, _, _)
\* for linkName, consumer := range consumerJob.ResolvedConsumes; st is [errors, m]
RecordLoop(names, ref, st) ==
    IF names = <<>> THEN st
    ELSE LET linkName == Head(names)
             consumerInstanceGroup == st.m[ref[1]]
             consumerJob == JobRefAt(st.m, ref)
             consumer == consumerJob.ResolvedConsumes[linkName]
             field == ConsumesField(consumerInstanceGroup.Name, consumerJob.Name, linkName)
             pg == LookupInstanceGroup(st.m, consumer.RoleName)
             pj == IF pg = 0 THEN 0 ELSE LookupJob(st.m[pg], consumer.JobName)
         IN IF pg = 0
            THEN RecordLoop(Tail(names), ref,
                     [st EXCEPT !.errors = Append(@, ValidationError("InternalError",
                          field, <<consumer.RoleName>>))])
            ELSE IF pj = 0
            THEN RecordLoop(Tail(names), ref,
                     [st EXCEPT !.errors = Append(@, ValidationError("InternalError",
                          field, <<consumer.JobName, consumer.RoleName>>))])
            ELSE LET linkInfo == LinkInfo(consumer.Name, consumer.Type,
                                          consumerInstanceGroup.Name, consumerJob.Name,
                                          consumer.ServiceName)
                     by == st.m[pg].JobReferences[pj].ResolvedConsumedBy
                 IN RecordLoop(Tail(names), ref,
                        [st EXCEPT !.m[pg].JobReferences[pj].ResolvedConsumedBy =
                             AppendConsumedBy(by, linkName, linkInfo)])

RECURSIVE RecordPass(_, _, _)
\* the loops over consumer instance groups and consumer jobs; st is [errors, m]
RecordPass(refs, ords, st) ==
    IF refs = <<>> THEN st
    ELSE RecordPass(Tail(refs), Tail(ords), RecordLoop(Head(ords), Head(refs), st))

recordJobConsumers(m, ords) == RecordPass(JobRefs(m), ords, [errors |-> <<>>, m |-> m])

\* ------------------------------------------------------------------------
\* ResolveLinks
\* ------------------------------------------------------------------------

\* ResolveLinks up to the call of recordJobConsumers, the maps walked as ords says
ResolveConsumers(m, ords) ==
    LET providers == ProvidersPass(m, JobRefs(m), ords,
                                   [errors |-> <<>>, byName |-> <<>>, byType |-> <<>>])
    IN ConsumersPass(JobRefs(m), ords, providers.byName, providers.byType,
                     [errors |-> providers.errors, m |-> m])

\* ResolveLinks: [errors, m]
ResolveLinksWith(m, ords, recordOrds) ==
    LET resolved == ResolveConsumers(m, ords)
        recorded == recordJobConsumers(resolved.m, recordOrds)
    IN [errors |-> resolved.errors \o recorded.errors, m |-> recorded.m]

\* the orders the three map walks of one job reference can take
WalkOrdersOf(jr) ==
    {[avail |-> a, export |-> e, consume |-> c] :
        a \in Perms(DOMAIN jr.Job.AvailableProviders),
        e \in Perms(DOMAIN jr.ExportedProvides),
        c \in Perms(DOMAIN jr.ResolvedConsumes)}

RECURSIVE WalkOrders(_, _)
WalkOrders(m, refs) ==
    IF refs = <<>> THEN {<<>>}
    ELSE {<<o>> \o rest : o \in WalkOrdersOf(JobRefAt(m, Head(refs))),
                          rest \in WalkOrders(m, Tail(refs))}

RECURSIVE RecordOrders(_, _)
RecordOrders(m, refs) ==
    IF refs = <<>> THEN {<<>>}
    ELSE {<<o>> \o rest : o \in Perms(DOMAIN JobRefAt(m, Head(refs)).ResolvedConsumes),
                          rest \in RecordOrders(m, Tail(refs))}

\* every result ResolveLinks can return on m
ResolveLinksOutcomes(m) ==
    UNION {{ResolveLinksWith(m, ords, recordOrds) :
               recordOrds \in RecordOrders(ResolveConsumers(m, ords).m, JobRefs(m))} :
           ords \in WalkOrders(m, JobRefs(m))}

\* ------------------------------------------------------------------------
\* Role manifests
\* ------------------------------------------------------------------------

\* largest number of consumers a job declares
MaxConsumers == 2

\* how often ResolveLinks is run on one role manifest
MaxLinkRuns == 2

\* the functions from a subset of keys to values
PartialMaps(keys, values) == UNION {[S -> values] : S \in SUBSET keys}

\* the type a provider declares in its job spec
TypeOf(name) == IF name = "p2" THEN "U" ELSE "T"

\* Job.AvailableProviders as loadJobSpec builds it: keyed by the provider's name,
\* the type never empty
AvailableProviderMaps(names) ==
    {[n \in S |-> [Name |-> n, Type |-> TypeOf(n)]] : S \in SUBSET names}

\* JobReference.ExportedProvides: provider name -> alias ("" for none)
ExportedProvidesMaps ==
    {[n \in DOMAIN a |-> [Alias |-> a[n]]] :
        a \in {x \in PartialMaps({"p1", "p2"}, {"", "p2"}) :
                  "p2" \in DOMAIN x => x["p2"] = ""}}

\* Job.DesiredConsumers entries as loadJobSpec builds them
Consumer(name, type, optional) ==
    ConsumesInfo(LinkInfo(name, type, "", "", <<>>), "", FALSE, optional)

Consumers ==
    {Consumer("", "T", FALSE), Consumer("", "T", TRUE), Consumer("", "U", FALSE),
     Consumer("p1", "T", FALSE), Consumer("p2", "U", FALSE)}

ConsumerLists == UNION {[1..n -> Consumers] : n \in 0..MaxConsumers}

\* the consumes block of a job reference in the role manifest
Override(alias, ignore) == ConsumesInfo(LinkInfo("", "", "", "", <<>>), alias, ignore, FALSE)

OverrideMaps ==
    {o \in PartialMaps({"", "p1"},
                       {Override("", FALSE), Override("p2", FALSE), Override("", TRUE)}) :
        "" \in DOMAIN o => o[""] = Override("p2", FALSE)}

\* model.JobReference with its model.Job
JobReference(name, available, desired, exported, consumes) ==
    [Name |-> name, ServiceName |-> <<>>,
     Job |-> [Name |-> name, AvailableProviders |-> available,
              DesiredConsumers |-> desired],
     ExportedProvides |-> exported,
     ResolvedConsumes |-> consumes,
     ResolvedConsumedBy |-> <<>>]

\* two instance groups: A provides p1 and perhaps p2, B consumes (and may provide
\* and export p3)
RoleManifests ==
    {<<[Name |-> "A", JobReferences |-> <<JobReference("ja", av, <<>>, ex, <<>>)>>],
       [Name |-> "B", JobReferences |->
           <<JobReference("jb", avB, dc, [n \in DOMAIN avB |-> [Alias |-> ""]], ov)>>]>> :
        av \in {a \in AvailableProviderMaps({"p1", "p2"}) : "p1" \in DOMAIN a},
        ex \in ExportedProvidesMaps,
        avB \in AvailableProviderMaps({"p3"}),
        dc \in ConsumerLists,
        ov \in OverrideMaps}

LinksInit ==
    /\ manifest \in RoleManifests
    /\ rm = manifest
    /\ linkErrors = <<>>
    /\ linkRuns = 0
    /\ rerun = [done |-> FALSE, rm |-> <<>>, errors |-> <<>>]
    /\ CompileIdle
    /\ AggIdle
    /\ RunIdle
    /\ PropsIdle
    /\ DevIdle
    /\ QueueIdle
    /\ StagesIdle

\* r.ResolveLinks() on the resolver's role manifest
ResolveLinks ==
    /\ linkRuns < MaxLinkRuns
    /\ \E out \in ResolveLinksOutcomes(rm) :
          /\ rm' = out.m
          /\ linkErrors' = out.errors
    /\ linkRuns' = linkRuns + 1
    /\ UNCHANGED <<manifest, rerun, compileVars, aggVars, roleVars>>

\* ResolveLinks of another resolver, on the same role manifest as loaded
ResolveLinksAgain ==
    /\ ~rerun.done
    /\ \E out \in ResolveLinksOutcomes(manifest) :
          rerun' = [done |-> TRUE, rm |-> out.m, errors |-> out.errors]
    /\ UNCHANGED <<manifest, rm, linkErrors, linkRuns, compileVars, aggVars, roleVars>>

LinksNext ==
    \/ ResolveLinks
    \/ ResolveLinksAgain

SpecLinks == LinksInit /\ [][LinksNext]_vars

\* ------------------------------------------------------------------------
\* Properties of ResolveLinks
\* ------------------------------------------------------------------------

\* ResolveLinks ran once on the role manifest as loaded
LinkedOnce == linkRuns = 1

\* the consumers the jobs of the role manifest declare: <<job reference, index>>
DeclaredConsumers ==
    UNION {{<<ref, i>> : i \in DOMAIN JobRefAt(manifest, ref).Job.DesiredConsumers} :
           ref \in Range(JobRefs(manifest))}

ConsumerAt(d) == JobRefAt(manifest, d[1]).Job.DesiredConsumers[d[2]]

\* the providers of a type the jobs of the role manifest declare:
\* <<job reference, provider name>>
ProvidersOfType(type) ==
    UNION {{<<ref, n>> : n \in {x \in DOMAIN JobRefAt(manifest, ref).Job.AvailableProviders :
                                   JobRefAt(manifest, ref).Job.AvailableProviders[x].Type = type}} :
           ref \in Range(JobRefs(manifest))}

\* the returned error list holds an error whose field path names the consumer
ErrorNames(ref, c) ==
    \E k \in DOMAIN linkErrors :
        linkErrors[k].field =
            ConsumesField(manifest[ref[1]].Name, JobRefAt(manifest, ref).Name, c.Name)

\* ResolvedConsumes of the job reference holds a link to a provider, under the
\* consumer's name or, for a consumer without a name, under the name of a
\* provider of its type
HasBinding(ref, c) ==
    LET rc == JobRefAt(rm, ref).ResolvedConsumes
    IN \E key \in DOMAIN rc :
          /\ rc[key].RoleName # ""
          /\ \/ key = c.Name
             \/ c.Name = "" /\ \E p \in ProvidersOfType(c.Type) : p[2] = key

\* the role manifest overrides the consumer and flags it ignore
IgnoredInManifest(ref, c) ==
    LET consumes == JobRefAt(manifest, ref).ResolvedConsumes
    IN c.Name \in DOMAIN consumes /\ consumes[c.Name].Ignore

Unnamed(d) ==
    /\ ConsumerAt(d).Name = ""
    /\ "" \notin DOMAIN JobRefAt(manifest, d[1]).ResolvedConsumes

\* ResolvedConsumes of the job reference links the provider p under p's name
BoundTo(ref, p) ==
    LET rc == JobRefAt(rm, ref).ResolvedConsumes
        provider == JobRefAt(manifest, p[1]).Job.AvailableProviders[p[2]]
    IN /\ p[2] \in DOMAIN rc
       /\ rc[p[2]].Name = provider.Name
       /\ rc[p[2]].Type = provider.Type
       /\ rc[p[2]].RoleName = manifest[p[1][1]].Name
       /\ rc[p[2]].JobName = JobRefAt(manifest, p[1]).Name

\* a consumer the same job declares later carries the provider's name, so that
\* its link is stored under the same key
NamedLater(d, p) ==
    \E k \in DOMAIN JobRefAt(manifest, d[1]).Job.DesiredConsumers :
        k > d[2] /\ JobRefAt(manifest, d[1]).Job.DesiredConsumers[k].Name = p[2]

C9_Deterministic ==
    (LinkedOnce /\ rerun.done) => (linkErrors = rerun.errors /\ rm = rerun.rm)

\* ------------------------------------------------------------------------
\* Properties of the explicit consumers and of the back-edges
\* ------------------------------------------------------------------------

\* the (name, type, role, job, service name) of a link
LinkOf(info) == LinkInfo(info.Name, info.Type, info.RoleName, info.JobName, info.ServiceName)

\* the providers the role manifest publishes under the key: every exported
\* provider of a job whose alias, or name when it has no alias, is the key
ExportedUnder(key) ==
    UNION {{LinkInfo(JobRefAt(manifest, ref).Job.AvailableProviders[n].Name,
                     JobRefAt(manifest, ref).Job.AvailableProviders[n].Type,
                     manifest[ref[1]].Name, JobRefAt(manifest, ref).Name,
                     ServiceNameOf(manifest[ref[1]], JobRefAt(manifest, ref))) :
              n \in {x \in DOMAIN JobRefAt(manifest, ref).ExportedProvides :
                        /\ x \in DOMAIN JobRefAt(manifest, ref).Job.AvailableProviders
                        /\ ProviderKey(x, JobRefAt(manifest, ref).ExportedProvides[x]) = key}} :
           ref \in Range(JobRefs(manifest))}

\* the consumers the role manifest specifies: <<job reference, consumer name>>
ExplicitConsumers ==
    UNION {{<<ref, n>> : n \in DOMAIN JobRefAt(manifest, ref).ResolvedConsumes} :
           ref \in Range(JobRefs(manifest))}

\* the key the explicit consumer e is looked up under
AliasOf(e) == ConsumerAlias(e[2], JobRefAt(manifest, e[1]).ResolvedConsumes[e[2]])

\* C23: an explicit consumer is looked up under its alias, or its name when it
\* has no alias; when a provider is published under that key and the consumer is
\* not flagged ignore, its ResolvedConsumes entry carries exactly that
\* provider's (name, type, role, job, service name) after ResolveLinks; when
\* none is, a NotFound error with the consumer's field path is returned.
C23_ExplicitConsumerBound ==
    LinkedOnce =>
        \A e \in ExplicitConsumers :
            LET rc == JobRefAt(rm, e[1]).ResolvedConsumes
                field == ConsumesField(manifest[e[1][1]].Name,
                                       JobRefAt(manifest, e[1]).Name, e[2])
            IN IF ExportedUnder(AliasOf(e)) # {}
               THEN ~JobRefAt(manifest, e[1]).ResolvedConsumes[e[2]].Ignore =>
                       /\ e[2] \in DOMAIN rc
                       /\ LinkOf(rc[e[2]]) \in ExportedUnder(AliasOf(e))
               ELSE \E k \in DOMAIN linkErrors :
                       /\ linkErrors[k].kind = "NotFound"
                       /\ linkErrors[k].field = field

\* the job of the explicit consumer e declares no consumer without a name and
\* at most one of the name of e, so that no declared consumer is resolved into
\* the entry of e after the role manifest's entry was
NotRebound(e) ==
    LET desired == JobRefAt(manifest, e[1]).Job.DesiredConsumers
    IN /\ \A i \in DOMAIN desired : desired[i].Name # ""
       /\ Cardinality({i \in DOMAIN desired : desired[i].Name = e[2]}) <= 1

\* what holds of the explicit consumers: the entry carries the provider
\* published under the key unless a declared consumer is resolved into it
ExplicitBoundUnlessRebound ==
    LinkedOnce =>
        \A e \in ExplicitConsumers :
            LET rc == JobRefAt(rm, e[1]).ResolvedConsumes
                field == ConsumesField(manifest[e[1][1]].Name,
                                       JobRefAt(manifest, e[1]).Name, e[2])
            IN IF ExportedUnder(AliasOf(e)) # {}
               THEN (~JobRefAt(manifest, e[1]).ResolvedConsumes[e[2]].Ignore /\ NotRebound(e)) =>
                       /\ e[2] \in DOMAIN rc
                       /\ LinkOf(rc[e[2]]) \in ExportedUnder(AliasOf(e))
               ELSE \E k \in DOMAIN linkErrors :
                       /\ linkErrors[k].kind = "NotFound"
                       /\ linkErrors[k].field = field

\* ResolveLinks returned no InternalError
NoInternalError == \A k \in DOMAIN linkErrors : linkErrors[k].kind # "InternalError"

\* the entries of ResolvedConsumedBy[L] of the provider job reference that name
\* the consumer job reference
BackEdges(provider, L, consumer) ==
    LET by == JobRefAt(rm, provider).ResolvedConsumedBy
    IN IF L \notin DOMAIN by THEN {}
       ELSE {k \in DOMAIN by[L] :
                /\ by[L][k].RoleName = rm[consumer[1]].Name
                /\ by[L][k].JobName = JobRefAt(rm, consumer).Name}

\* ResolvedConsumes[L] of the consumer job reference is bound to the provider
BindsTo(consumer, L, provider) ==
    LET rc == JobRefAt(rm, consumer).ResolvedConsumes
    IN /\ L \in DOMAIN rc
       /\ rc[L].RoleName = rm[provider[1]].Name
       /\ rc[L].JobName = JobRefAt(rm, provider).Name

\* C24: after a ResolveLinks that returned no InternalError, for every binding
\* under the link name L in a job reference's ResolvedConsumes the provider's
\* job reference holds in ResolvedConsumedBy[L] exactly one entry for that
\* consumer, and ResolvedConsumedBy holds no entry without such a binding.
C24_BackEdgesMirror ==
    (LinkedOnce /\ NoInternalError) =>
        /\ \A consumer \in Range(JobRefs(rm)) :
              \A L \in DOMAIN JobRefAt(rm, consumer).ResolvedConsumes :
                 \E provider \in Range(JobRefs(rm)) :
                    /\ BindsTo(consumer, L, provider)
                    /\ Cardinality(BackEdges(provider, L, consumer)) = 1
        /\ \A provider \in Range(JobRefs(rm)) :
              \A L \in DOMAIN JobRefAt(rm, provider).ResolvedConsumedBy :
                 \A k \in DOMAIN JobRefAt(rm, provider).ResolvedConsumedBy[L] :
                    \E consumer \in Range(JobRefs(rm)) :
                       /\ BindsTo(consumer, L, provider)
                       /\ k \in BackEdges(provider, L, consumer)

\* job jb is bound to job ja under two link names, and ja holds one back-edge
\* under each
C24_Witness ==
    /\ LinkedOnce
    /\ NoInternalError
    /\ \E L1, L2 \in DOMAIN JobRefAt(rm, <<2, 1>>).ResolvedConsumes :
          /\ L1 # L2
          /\ BindsTo(<<2, 1>>, L1, <<1, 1>>)
          /\ BindsTo(<<2, 1>>, L2, <<1, 1>>)
          /\ Cardinality(BackEdges(<<1, 1>>, L1, <<2, 1>>)) = 1
          /\ Cardinality(BackEdges(<<1, 1>>, L2, <<2, 1>>)) = 1

\* C30: ResolveLinks is idempotent: a second run on the resolved role manifest
\* leaves ResolvedConsumes and ResolvedConsumedBy of every job reference as the
\* first run left them and returns the same errors.
C30_Idempotent ==
    [][(linkRuns = 1 /\ linkRuns' = 2) => (rm' = rm /\ linkErrors' = linkErrors)]_vars

\* ========================================================================
\* Signature aggregation (model.AggregateSignatures)
\* ========================================================================

\* the bytes signatures are made of: NUL, the digit '1', the letter 'a'
Alphabet == {0, 49, 97}

\* the strings of at most n bytes
Strings(n) == UNION {[1..k -> Alphabet] : k \in 0..n}

RECURSIVE TotalLen(_)
\* the sum of len(signature)
TotalLen(sigs) == IF sigs = <<>> THEN 0 ELSE Len(Head(sigs)) + TotalLen(Tail(sigs))

\* the inputs tried: at most MaxSigs strings of at most MaxBytes bytes together
SignatureLists ==
    {sigs \in UNION {[1..n -> Strings(MaxBytes)] : n \in 0..MaxSigs} :
        TotalLen(sigs) <= MaxBytes}

RECURSIVE Sprintf(_)
\* fmt.Sprintf("%d", n) of a number that is not negative: its decimal digits
Sprintf(n) == IF n < 10 THEN <<48 + n>> ELSE Sprintf(n \div 10) \o <<48 + (n % 10)>>

RECURSIVE WriteSignatures(_)
\* the loop: hasher.Write(signature), hasher.Write("\x00")
WriteSignatures(sigs) ==
    IF sigs = <<>> THEN <<>>
    ELSE Head(sigs) \o <<0>> \o WriteSignatures(Tail(sigs))

\* all the bytes AggregateSignatures writes to the hasher
Preimage(sigs) == WriteSignatures(sigs) \o Sprintf(TotalLen(sigs))

NotHashed == [done |-> FALSE, bytes |-> <<>>]

AggInit ==
    /\ signatures \in SignatureLists \X SignatureLists
    /\ hashed = <<NotHashed, NotHashed>>
    /\ CompileIdle
    /\ LinksIdle
    /\ RunIdle
    /\ PropsIdle
    /\ DevIdle
    /\ QueueIdle
    /\ StagesIdle

\* AggregateSignatures(signatures[i])
AggregateSignatures(i) ==
    /\ ~hashed[i].done
    /\ hashed' = [hashed EXCEPT ![i] = [done |-> TRUE, bytes |-> Preimage(signatures[i])]]
    /\ UNCHANGED <<signatures, compileVars, linkVars, roleVars>>

AggNext == \E i \in 1..2 : AggregateSignatures(i)

SpecAgg == AggInit /\ [][AggNext]_vars

\* both inputs are hashed
BothHashed == hashed[1].done /\ hashed[2].done

\* C10: the bytes AggregateSignatures feeds to SHA-1 are injective over the
\* input sequences: two different sequences of strings, over an alphabet with
\* the NUL byte and a digit, never give the same bytes.
C10_PreimageInjective ==
    (BothHashed /\ signatures[1] # signatures[2]) => hashed[1].bytes # hashed[2].bytes

\* the strings of an input hold no NUL byte
NulFree(sigs) == \A i \in DOMAIN sigs : \A k \in DOMAIN sigs[i] : sigs[i][k] # 0

\* the bytes are injective over the inputs whose strings hold no NUL byte
PreimageInjectiveNulFree ==
    (BothHashed /\ signatures[1] # signatures[2]
        /\ NulFree(signatures[1]) /\ NulFree(signatures[2]))
    => hashed[1].bytes # hashed[2].bytes

\* ========================================================================
\* Run aggregation (InstanceGroup.CalculateRoleRun)
\* ========================================================================

\* largest number of job references of an instance group
MaxJobRefs == 2

\* ------------------------------------------------------------------------
\* The run properties of a job reference
\* (ContainerProperties.BoshContainerization.Run)
\* ------------------------------------------------------------------------

\* Run is nil: none of its fields can be set
NoRunProperty ==
    [Run |-> FALSE, HealthCheck |-> "nil", ActivePassiveProbe |-> "",
     ServiceAccount |-> "", Affinity |-> "nil", FlightStage |-> ""]

\* the run properties tried
RunProperties ==
    {NoRunProperty} \cup
    [Run : {TRUE}, HealthCheck : {"nil", "hc"}, ActivePassiveProbe : {"", "p1", "p2"},
     ServiceAccount : {"", "s1", "s2"}, Affinity : {"nil", "af"},
     FlightStage : {"", "flight", "post-flight"}]

\* the instance groups tried
InstanceGroups ==
    [Name : {"ga", "gb"},
     JobReferences : UNION {[1..n -> RunProperties] : n \in 0..MaxJobRefs}]

\* the field path `instance_groups[name]`
GroupField(name) == <<"instance_groups", name>>

\* the predicates on job references, as functions
runPropertyPresent == [j \in RunProperties |-> j.Run]
flightStagePresent == [j \in RunProperties |-> j.FlightStage # ""]
healthCheckPresent == [j \in RunProperties |-> j.HealthCheck # "nil"]
affinityPresent == [j \in RunProperties |-> j.Affinity # "nil"]

\* the job references fn holds for
Holding(refs, fn) == {i \in DOMAIN refs : fn[refs[i]]}

atLeastOnce(refs, fn) == Holding(refs, fn) # {}

atMostOnce(refs, fn) == Cardinality(Holding(refs, fn)) <= 1

\* the job references with a run property, in order
WithRunProperty(refs) ==
    LET present(j) == runPropertyPresent[j]
    IN SelectSeq(refs, present)

\* the first value of a field among the job references that set it
FirstOf(refs, fn, field, zero) ==
    IF Holding(refs, fn) = {} THEN zero
    ELSE LET i == CHOOSE k \in Holding(refs, fn) : \A l \in Holding(refs, fn) : k <= l
         IN refs[i][field]

firstFlightStage(refs) == FirstOf(refs, flightStagePresent, "FlightStage", "")
firstHealthCheck(refs) == FirstOf(refs, healthCheckPresent, "HealthCheck", "nil")
firstAffinity(refs) == FirstOf(refs, affinityPresent, "Affinity", "nil")

\* the flight stages that are set are all the same
equalOrMissing(refs) ==
    Cardinality({refs[i].FlightStage : i \in Holding(refs, flightStagePresent)}) <= 1

\* the one value of a string field that is not empty, and whether it is the only
\* one
uniqueStringProperty(refs, field) ==
    LET set == [j \in RunProperties |-> j[field] # ""]
        values == {refs[i][field] : i \in Holding(refs, set)}
    IN [property |-> FirstOf(refs, set, field, ""), err |-> Cardinality(values) > 1]

\* ------------------------------------------------------------------------
\* CalculateRoleRun
\* ------------------------------------------------------------------------

\* the check of the flight stages
FlightStageErrs(g, refs) ==
    IF equalOrMissing(refs) THEN <<>>
    ELSE <<ValidationError("Invalid", GroupField(g.Name),
             "If specifying Run.FlightStage properties on multiple jobs of the same instance group, they need to have the same value")>>

\* a check of the health checks that lets every instance group pass
HealthCheckErrsNone(g, refs) == <<>>

\* the check of the health checks
HealthCheckErrs(g, refs) ==
    IF atMostOnce(refs, healthCheckPresent) THEN <<>>
    ELSE <<ValidationError("Invalid", GroupField(g.Name),
             "Cannot specify Run.HealthCheck properties on more than one job of the same instance group")>>

\* the check of a string property, ActivePassiveProbe or ServiceAccount
StringPropertyErrs(g, refs, field) ==
    IF ~uniqueStringProperty(refs, field).err THEN <<>>
    ELSE <<ValidationError("Invalid", GroupField(g.Name),
             IF field = "ActivePassiveProbe"
             THEN "Cannot specify Run.ActivePassiveProbe properties on more than one job of the same instance group"
             ELSE "Cannot specify Run.ServiceAccount properties on more than one job of the same instance group")>>

\* the check of the affinities; its message is the one of the health checks
AffinityErrs(g, refs) ==
    IF atMostOnce(refs, affinityPresent) THEN <<>>
    ELSE <<ValidationError("Invalid", GroupField(g.Name),
             "Cannot specify Run.HealthCheck properties on more than one job of the same instance group")>>

\* &RoleRun{}
EmptyRun ==
    [FlightStage |-> "", HealthCheck |-> "nil", ActivePassiveProbe |-> "",
     ServiceAccount |-> "", Affinity |-> "nil"]

\* g.Run and the returned errors. The scaling, the capabilities, the volumes and
\* the maximum fields are folded into fields of g.Run that are not carried here;
\* these calls return nothing.
CalculateRoleRunOf(g) ==
    IF ~atLeastOnce(g.JobReferences, runPropertyPresent)
    THEN [Run |-> EmptyRun,
          errs |-> <<ValidationError("Required", GroupField(g.Name),
                       "properties.bosh_containerization.run required for at least one Job")>>]
    ELSE LET refs == WithRunProperty(g.JobReferences)
             probe == uniqueStringProperty(refs, "ActivePassiveProbe")
             account == uniqueStringProperty(refs, "ServiceAccount")
         IN [Run |->
               [FlightStage |-> IF equalOrMissing(refs) THEN firstFlightStage(refs) ELSE "",
                HealthCheck |-> IF atMostOnce(refs, healthCheckPresent)
                                THEN firstHealthCheck(refs) ELSE "nil",
                ActivePassiveProbe |-> IF ~probe.err THEN probe.property ELSE "",
                ServiceAccount |-> IF ~account.err THEN account.property ELSE "",
                Affinity |-> IF atMostOnce(refs, affinityPresent)
                             THEN firstAffinity(refs) ELSE "nil"],
             errs |-> FlightStageErrs(g, refs)
                      \o HealthCheckErrs(g, refs)
                      \o StringPropertyErrs(g, refs, "ActivePassiveProbe")
                      \o StringPropertyErrs(g, refs, "ServiceAccount")
                      \o AffinityErrs(g, refs)]

NotCalculated == [done |-> FALSE, Run |-> EmptyRun, errs |-> <<>>]

RunInit ==
    /\ group \in InstanceGroups
    /\ groupRun = NotCalculated
    /\ CompileIdle
    /\ LinksIdle
    /\ AggIdle
    /\ PropsIdle
    /\ DevIdle
    /\ QueueIdle
    /\ StagesIdle

\* g.CalculateRoleRun()
CalculateRoleRun ==
    /\ ~groupRun.done
    /\ LET out == CalculateRoleRunOf(group)
       IN groupRun' = [done |-> TRUE, Run |-> out.Run, errs |-> out.errs]
    /\ UNCHANGED <<group, compileVars, linkVars, aggVars, propVars, devVars, queueVars, stageVars>>

RunNext == CalculateRoleRun

SpecRun == RunInit /\ [][RunNext]_vars

\* the job references of the group that declare a health check
DeclareHealthCheck == {i \in DOMAIN group.JobReferences : group.JobReferences[i].HealthCheck # "nil"}

\* the distinct values of a string field the job references of the group declare
DeclaredValues(field) == {group.JobReferences[i][field] : i \in DOMAIN group.JobReferences} \ {""}

\* the returned errors hold one of this detail that names the group
GroupError(detail) ==
    \E i \in DOMAIN groupRun.errs :
        /\ groupRun.errs[i].field = GroupField(group.Name)
        /\ groupRun.errs[i].detail = detail

\* C14: when CalculateRoleRun returns no error, at most one job reference of the
\* group declares a health check, and the job references declare at most one
\* distinct ActivePassiveProbe and at most one distinct ServiceAccount that are
\* not empty; each violation gives an error that names the instance group.
C14_RunUnique ==
    groupRun.done =>
        /\ groupRun.errs = <<>> =>
              /\ Cardinality(DeclareHealthCheck) <= 1
              /\ Cardinality(DeclaredValues("ActivePassiveProbe")) <= 1
              /\ Cardinality(DeclaredValues("ServiceAccount")) <= 1
        /\ Cardinality(DeclareHealthCheck) > 1 =>
              GroupError("Cannot specify Run.HealthCheck properties on more than one job of the same instance group")
        /\ Cardinality(DeclaredValues("ActivePassiveProbe")) > 1 =>
              GroupError("Cannot specify Run.ActivePassiveProbe properties on more than one job of the same instance group")
        /\ Cardinality(DeclaredValues("ServiceAccount")) > 1 =>
              GroupError("Cannot specify Run.ServiceAccount properties on more than one job of the same instance group")
        /\ \A i \in DOMAIN groupRun.errs : groupRun.errs[i].field = GroupField(group.Name)

\* two jobs with a health check each and the same service account: one error,
\* of the health checks
C14_Witness ==
    /\ groupRun.done
    /\ Cardinality(DeclareHealthCheck) = 2
    /\ Cardinality(DeclaredValues("ServiceAccount")) = 1
    /\ \A i \in DOMAIN group.JobReferences : group.JobReferences[i].ServiceAccount # ""
    /\ Len(groupRun.errs) = 1

\* ========================================================================
\* Property selection (Job.GetPropertiesForJob)
\* ========================================================================

\* largest number of properties of a job
MaxProperties == 2

\* ------------------------------------------------------------------------
\* YAML values. A value is a function from the paths of the nodes below it to
\* their kinds; the path <<>> is the value itself, a path is a sequence of
\* keys, a key a sequence of characters. The elements of a YAML sequence are
\* not nodes: Leaf("slice", n) is the sequence of the numbers 1, ..., n.
\* ------------------------------------------------------------------------

Node(kind, val) == [kind |-> kind, val |-> val]

Leaf(kind, val) == [q \in {<<>>} |-> Node(kind, val)]

Nil == Leaf("nil", 0)

EmptyMap == Leaf("map", 0)

\* reflect.TypeOf(v).Kind() of a value that is not nil
Kind(v) == v[<<>>].kind

IsPrefix(p, q) == Len(p) <= Len(q) /\ SubSeq(q, 1, Len(p)) = p

\* the value at path p of t
Subtree(t, p) ==
    LET below == {q \in DOMAIN t : IsPrefix(p, q)}
    IN [r \in {SubSeq(q, Len(p) + 1, Len(q)) : q \in below} |-> t[p \o r]]

\* t with the value v at path p, in place of what was there
Graft(t, p, v) ==
    LET keep == {q \in DOMAIN t : ~IsPrefix(p, q)}
        new == {p \o r : r \in DOMAIN v}
    IN [q \in keep \cup new |->
          IF q \in new THEN v[SubSeq(q, Len(p) + 1, Len(q))] ELSE t[q]]

RECURSIVE getKeyGrams(_)
\* the pieces of a property name between its dots
getKeyGrams(name) ==
    IF \A i \in DOMAIN name : name[i] # "."
    THEN <<name>>
    ELSE LET i == CHOOSE k \in DOMAIN name :
                      name[k] = "." /\ \A l \in 1..(k - 1) : name[l] # "."
         IN <<SubSeq(name, 1, i - 1)>> \o getKeyGrams(SubSeq(name, i + 1, Len(name)))

\* the value the maps of conf hold at the path keyPieces, if every step but
\* the last leads to a map that has the next key
getOpinionValue(conf, keyPieces) ==
    IF keyPieces \in DOMAIN conf
    THEN [ok |-> TRUE, value |-> Subtree(conf, keyPieces)]
    ELSE [ok |-> FALSE, value |-> Nil]

\* props with value at the path of name; the maps on the way are made, and a
\* value on the way that is not a map is an error
insertConfig(props, name, value) ==
    LET grams == getKeyGrams(name)
        onTheWay == {SubSeq(grams, 1, k) : k \in 1..(Len(grams) - 1)}
        withMaps == [q \in DOMAIN props \cup onTheWay |->
                        IF q \in DOMAIN props THEN props[q] ELSE Node("map", 0)]
    IN IF \E q \in onTheWay : q \in DOMAIN props /\ props[q].kind # "map"
       THEN [err |-> TRUE, props |-> props]
       ELSE [err |-> FALSE, props |-> Graft(withMaps, grams, value)]

\* ------------------------------------------------------------------------
\* GetPropertiesForJob
\* ------------------------------------------------------------------------

PropertiesKey == <<"p", "r", "o", "p", "e", "r", "t", "i", "e", "s">>

\* the dark value marks the property as excluded: it is nil, or its kind is
\* neither reflect.Map nor reflect.Array
IsDark(dark) ==
    /\ dark.ok
    /\ \/ dark.value = Nil
       \/ Kind(dark.value) # "map" /\ Kind(dark.value) # "array"

RECURSIVE PropertiesLoop(_, _, _, _)
\* the loop over j.Properties; st holds props, the error and the names
\* insertConfig was called for
PropertiesLoop(properties, light, dark, st) ==
    IF properties = <<>> THEN st
    ELSE LET property == Head(properties)
             keyPieces == getKeyGrams(property.Name)
             lightValue == getOpinionValue(light, keyPieces)
             finalValue == IF lightValue.ok /\ lightValue.value # Nil
                           THEN lightValue.value ELSE property.Default
             ins == insertConfig(st.props, property.Name, finalValue)
         IN IF IsDark(getOpinionValue(dark, keyPieces))
            THEN PropertiesLoop(Tail(properties), light, dark, st)
            ELSE IF ins.err
            THEN [props |-> EmptyMap, err |-> "insertConfig", inserted |-> st.inserted]
            ELSE PropertiesLoop(Tail(properties), light, dark,
                     [st EXCEPT !.props = ins.props,
                                !.inserted = @ \cup {property.Name}])

PropsError(msg) == [props |-> EmptyMap, err |-> msg, inserted |-> {}]

\* GetPropertiesForJob of a job with these properties
GetPropertiesForJobOf(properties, ops) ==
    LET lightOpinions == getOpinionValue(ops.Light, <<PropertiesKey>>)
        darkOpinions == getOpinionValue(ops.Dark, <<PropertiesKey>>)
    IN IF ~lightOpinions.ok
       THEN PropsError("getPropertiesForJob: no 'properties' key in light opinions")
       ELSE IF ~darkOpinions.ok
       THEN PropsError("getPropertiesForJob: no 'properties' key in dark opinions")
       ELSE IF Kind(lightOpinions.value) # "map"
       THEN PropsError("getPropertiesForJob: can't convert lightOpinions into a string map")
       ELSE IF Kind(darkOpinions.value) # "map"
       THEN PropsError("getPropertiesForJob: can't convert darkOpinions into a string map")
       ELSE PropertiesLoop(properties, lightOpinions.value, darkOpinions.value,
                           [props |-> EmptyMap, err |-> "", inserted |-> {}])

\* ------------------------------------------------------------------------
\* The jobs and the opinions tried
\* ------------------------------------------------------------------------

\* the map {key: value}
MapOf(key, value) == Graft(EmptyMap, <<key>>, value)

\* the properties a.b.c, a.d and a.b with their defaults
JobProperty(n) ==
    <<[Name |-> <<"a", ".", "b", ".", "c">>, Default |-> Leaf("int", 42)],
      [Name |-> <<"a", ".", "d">>, Default |-> Nil],
      [Name |-> <<"a", ".", "b">>, Default |-> Leaf("int", 5)]>>[n]

\* the property lists of a job: no name twice
PropertyLists ==
    {[i \in DOMAIN l |-> JobProperty(l[i])] :
        l \in {m \in UNION {[1..n -> 1..3] : n \in 0..MaxProperties} :
                  \A i, k \in DOMAIN m : i # k => m[i] # m[k]}}

\* the values tried at a.b.c: null, scalars, a map and sequences
LeafValues ==
    {Nil, Leaf("int", 1), Leaf("string", 2), Leaf("bool", 0), EmptyMap,
     Leaf("slice", 0), Leaf("slice", 3), MapOf(<<"x">>, Leaf("int", 1))}

\* the `properties:` trees tried
PropertyTrees ==
    {EmptyMap}
    \cup {MapOf(<<"a">>, MapOf(<<"b">>, MapOf(<<"c">>, v))) : v \in LeafValues}
    \cup {MapOf(<<"a">>, MapOf(<<"b">>, v)) : v \in {Nil, Leaf("int", 7)}}
    \cup {MapOf(<<"a">>, MapOf(<<"d">>, v)) : v \in {Nil, Leaf("slice", 3), Leaf("int", 8)}}

\* an opinions document: without the key `properties`, with one that is no
\* map, or with a tree
Documents ==
    {EmptyMap, MapOf(PropertiesKey, Nil)} \cup {MapOf(PropertiesKey, t) : t \in PropertyTrees}

\* the light documents tried: fewer trees than the dark ones
LightDocuments ==
    {EmptyMap, MapOf(PropertiesKey, Nil)}
    \cup {MapOf(PropertiesKey, t) :
            t \in {EmptyMap,
                   MapOf(<<"a">>, MapOf(<<"b">>, MapOf(<<"c">>, Leaf("int", 9)))),
                   MapOf(<<"a">>, MapOf(<<"b">>, MapOf(<<"c">>, Nil))),
                   MapOf(<<"a">>, MapOf(<<"b">>, MapOf(<<"c">>, MapOf(<<"x">>, Leaf("int", 1))))),
                   MapOf(<<"a">>, MapOf(<<"d">>, Leaf("int", 8)))}}

NoProperties == [done |-> FALSE, props |-> EmptyMap, err |-> "", inserted |-> {}]

PropsInit ==
    /\ opinions \in [Properties : PropertyLists, Light : LightDocuments, Dark : Documents]
    /\ jobProperties = NoProperties
    /\ CompileIdle
    /\ LinksIdle
    /\ AggIdle
    /\ RunIdle
    /\ DevIdle
    /\ QueueIdle
    /\ StagesIdle

\* j.GetPropertiesForJob(opinions)
GetPropertiesForJob ==
    /\ ~jobProperties.done
    /\ LET out == GetPropertiesForJobOf(opinions.Properties, opinions)
       IN jobProperties' = [done |-> TRUE, props |-> out.props, err |-> out.err,
                            inserted |-> out.inserted]
    /\ UNCHANGED <<opinions, compileVars, linkVars, aggVars, runVars, devVars, queueVars, stageVars>>

PropsNext == GetPropertiesForJob

SpecProps == PropsInit /\ [][PropsNext]_vars

\* the dark opinions of the input
DarkProperties == Subtree(opinions.Dark, <<PropertiesKey>>)

\* GetPropertiesForJob returned a property tree
PropsReturned == jobProperties.done /\ jobProperties.err = ""

\* the property is not in the result: insertConfig was not called for it
Excluded(property) == property.Name \notin jobProperties.inserted

\* C13: a property a.b.c is excluded from the result exactly when the dark
\* opinions hold a value at the path a.b.c that is neither a map nor an array:
\* null and scalars exclude it; a map, an array (a YAML sequence) or no value at
\* that path do not.
C13_DarkLeafExcludes ==
    PropsReturned =>
        \A i \in DOMAIN opinions.Properties :
            LET property == opinions.Properties[i]
                path == getKeyGrams(property.Name)
            IN Excluded(property) <=>
                  /\ path \in DOMAIN DarkProperties
                  /\ DarkProperties[path].kind \notin {"map", "slice"}

\* what the code does: every dark value but a map excludes the property
DarkExcludesAllButMaps ==
    PropsReturned =>
        \A i \in DOMAIN opinions.Properties :
            LET property == opinions.Properties[i]
                path == getKeyGrams(property.Name)
            IN Excluded(property) <=>
                  /\ path \in DOMAIN DarkProperties
                  /\ DarkProperties[path].kind # "map"

\* ========================================================================
\* The version hash of an instance group (InstanceGroup.GetRoleDevVersion)
\* ========================================================================

\* largest number of job references of an instance group that is hashed
MaxDevJobs == 2

\* len() of a SHA-1 in hexadecimal
Sha1HexLen == 40

\* ------------------------------------------------------------------------
\* Strings are sequences of bytes
\* ------------------------------------------------------------------------

\* the bytes of the characters used
AsciiOf ==
    "a" :> 97 @@ "b" :> 98 @@ "c" :> 99 @@ "d" :> 100 @@ "e" :> 101 @@
    "f" :> 102 @@ "i" :> 105 @@ "k" :> 107 @@ "l" :> 108 @@ "m" :> 109
    @@ "n" :> 110 @@ "p" :> 112 @@ "r" :> 114 @@ "s" :> 115 @@ "t" :>
    116 @@ "u" :> 117 @@ "v" :> 118 @@ "x" :> 120 @@ "." :> 46 @@ ":" :>
    58 @@ " " :> 32 @@ "/" :> 47 @@ "<" :> 60 @@ ">" :> 62

\* []byte(s) of a string given by its characters
Bytes(chars) == [i \in DOMAIN chars |-> AsciiOf[chars[i]]]

\* hex.EncodeToString(sha1.Sum(data)), with SHA-1 taken to be free of
\* collisions: the digest is the data between two marks that are no bytes
Sha1(data) == <<-1>> \o data \o <<-2>>

\* a < b for strings: byte by byte, a prefix first
LessBytes(a, b) ==
    LET n == IF Len(a) < Len(b) THEN Len(a) ELSE Len(b)
        diff == {i \in 1..n : a[i] # b[i]}
    IN IF diff = {} THEN Len(a) < Len(b)
       ELSE LET i == CHOOSE k \in diff : \A l \in diff : k <= l
            IN a[i] < b[i]

RECURSIVE InsertString(_, _)
InsertString(x, sorted) ==
    IF sorted = <<>> THEN <<x>>
    ELSE IF LessBytes(x, Head(sorted)) THEN <<x>> \o sorted
    ELSE <<Head(sorted)>> \o InsertString(x, Tail(sorted))

\* a sort that leaves the strings as they come
KeepOrder(strings) == strings

RECURSIVE SortStrings(_)
\* sort.Strings
SortStrings(strings) ==
    IF strings = <<>> THEN <<>>
    ELSE InsertString(Head(strings), SortStrings(Tail(strings)))

\* fmt.Sprintf("%s\n%s", a, b)
JoinLine(a, b) == a \o <<10>> \o b

\* ------------------------------------------------------------------------
\* Scripts and templates
\* ------------------------------------------------------------------------

\* filepath.IsAbs
IsAbs(script) == script # <<>> /\ script[1] = AsciiOf["/"]

\* filepath.Dir(g.roleManifest.ManifestFilePath), with the separator
ManifestDir == Bytes(<<"m", "/">>)

\* GetScriptPaths: the scripts of the three lists that are not absolute, each
\* with its path next to the role manifest
GetScriptPaths(g) ==
    LET scripts == {s \in Range(g.EnvironScripts \o g.Scripts \o g.PostConfigScripts) : ~IsAbs(s)}
    IN [s \in scripts |-> ManifestDir \o s]

\* GetScriptSignatures, with the order in which `range paths` gave the names
GetScriptSignatures(g, order) ==
    LET paths == GetScriptPaths(g)
        scripts == SortStrings(order)
    IN IF \E i \in DOMAIN scripts : paths[scripts[i]] \notin DOMAIN g.Files
       THEN [err |-> TRUE, sig |-> <<>>]
       ELSE [err |-> FALSE,
             sig |-> Sha1(Flatten([i \in DOMAIN scripts |->
                                     scripts[i] \o g.Files[paths[scripts[i]]]]))]

\* GetTemplateSignatures, with the order in which `range Templates` gave the keys
GetTemplateSignatures(g, order) ==
    LET templates == [i \in DOMAIN order |->
                        order[i] \o Bytes(<<":", " ">>) \o g.Templates.m[order[i]]]
    IN Sha1(Flatten(SortStrings(templates)))

\* ------------------------------------------------------------------------
\* The jobs, the packages and the properties
\* ------------------------------------------------------------------------

RECURSIVE AllPackages(_)
\* packages = append(packages, jobReference.Packages...) over the job references
AllPackages(refs) ==
    IF refs = <<>> THEN <<>> ELSE Head(refs).Packages \o AllPackages(Tail(refs))

RECURSIVE InsertPackage(_, _)
InsertPackage(pkg, sorted) ==
    IF sorted = <<>> THEN <<pkg>>
    ELSE IF LessBytes(pkg.Name, Head(sorted).Name) THEN <<pkg>> \o sorted
    ELSE <<Head(sorted)>> \o InsertPackage(pkg, Tail(sorted))

RECURSIVE SortPackagesByName(_)
\* sort.Sort(packages): by name
SortPackagesByName(pkgs) ==
    IF pkgs = <<>> THEN <<>>
    ELSE InsertPackage(Head(pkgs), SortPackagesByName(Tail(pkgs)))

RECURSIVE SignatureOf(_, _)
\* roleSignature after the SHA1s of items are added to it, a line each
SignatureOf(roleSignature, items) ==
    IF items = <<>> THEN roleSignature
    ELSE SignatureOf(JoinLine(roleSignature, Head(items).SHA1), Tail(items))

\* getRoleJobAndPackagesSignature
getRoleJobAndPackagesSignature(g, scriptOrder, templateOrder) ==
    LET jobsAndPackages ==
            SignatureOf(SignatureOf(<<>>, g.JobReferences),
                        SortPackagesByName(AllPackages(g.JobReferences)))
        scriptSig == GetScriptSignatures(g, scriptOrder)
        withScripts == JoinLine(jobsAndPackages, scriptSig.sig)
        roleSignature ==
            IF ~g.Templates.isNil
            THEN JoinLine(withScripts, GetTemplateSignatures(g, templateOrder))
            ELSE withScripts
    IN IF scriptSig.err THEN [err |-> TRUE, sig |-> <<>>]
       ELSE [err |-> FALSE, sig |-> Sha1(roleSignature)]

RECURSIVE JoinKey(_)
\* the keys of a path, joined with dots
JoinKey(path) ==
    IF Len(path) = 1 THEN Bytes(path[1])
    ELSE Bytes(path[1]) \o Bytes(<<".">>) \o JoinKey(Tail(path))

\* fmt.Sprintf("%v", value) of a value that is no map and no sequence
Stringify(node) ==
    CASE node.kind = "nil" -> Bytes(<<"<", "n", "i", "l", ">">>)
      [] node.kind = "bool" -> IF node.val = 0 THEN Bytes(<<"f", "a", "l", "s", "e">>)
                               ELSE Bytes(<<"t", "r", "u", "e">>)
      [] OTHER -> Sprintf(node.val)

\* the pairs of key and value of the value at a path: one a leaf, one an element
\* of a sequence
FlatPairs(props, path) ==
    IF props[path].kind = "slice"
    THEN {<<JoinKey(path) \o Bytes(<<".">>) \o Sprintf(i - 1), Sprintf(i)>> :
            i \in 1..props[path].val}
    ELSE {<<JoinKey(path), Stringify(props[path])>>}

\* FlattenOpinions(properties, true): a map from the joined keys to the values
\* as strings, over maps and sequences
FlattenOpinions(props) ==
    LET pairs == UNION {FlatPairs(props, path) :
                          path \in {q \in DOMAIN props : q # <<>> /\ props[q].kind # "map"}}
    IN [k \in {pair[1] : pair \in pairs} |-> (CHOOSE pair \in pairs : pair[1] = k)[2]]

RECURSIVE KeysAndValues(_, _)
\* signatures = append(signatures, property, value) over the sorted keys
KeysAndValues(flatProps, keys) ==
    IF keys = <<>> THEN <<>>
    ELSE <<Head(keys), flatProps[Head(keys)]>> \o KeysAndValues(flatProps, Tail(keys))

\* the flattened properties of the job references, as GetPropertiesForJob
\* returns them
FlatPropsOf(g) ==
    [j \in DOMAIN g.JobReferences |->
        LET out == GetPropertiesForJobOf(g.JobReferences[j].Properties, g.Opinions)
        IN [err |-> out.err # "", flatProps |-> FlattenOpinions(out.props)]]

\* the strings GetRoleDevVersion hands to AggregateSignatures and the bytes
\* that writes to the hasher; propOrders[j] is the order in which `range
\* flatProps` gave the keys of job reference j. inOrder is history: every
\* range gave its keys in sorted order.
GetRoleDevVersionWith(g, scriptOrder, templateOrder, propOrders) ==
    LET jobPkgVersion == getRoleJobAndPackagesSignature(g, scriptOrder, templateOrder)
        flat == FlatPropsOf(g)
        fragments == [j \in DOMAIN flat |->
                        KeysAndValues(flat[j].flatProps, SortStrings(propOrders[j]))]
        rest == <<g.FissileVersion, g.TagExtra>>
                \o (IF g.Opinions.isNil THEN <<>> ELSE Flatten(fragments))
        inOrder == /\ scriptOrder = SortStrings(scriptOrder)
                   /\ templateOrder = SortStrings(templateOrder)
                   /\ \A j \in DOMAIN flat : propOrders[j] = SortStrings(propOrders[j])
    IN IF jobPkgVersion.err \/ (~g.Opinions.isNil /\ \E j \in DOMAIN flat : flat[j].err)
       THEN [err |-> TRUE, bytes |-> <<>>, inOrder |-> inOrder]
       ELSE [err |-> FALSE,
             bytes |-> WriteSignatures(<<jobPkgVersion.sig>> \o rest)
                       \o Sprintf(Sha1HexLen + TotalLen(rest)),
             inOrder |-> inOrder]

\* what GetRoleDevVersion can return: one outcome for every order in which the
\* three maps can be ranged over
DevOutcomes(g) ==
    LET flat == FlatPropsOf(g)
        orders == UNION {Perms(DOMAIN flat[j].flatProps) : j \in DOMAIN flat}
    IN {GetRoleDevVersionWith(g, so, to, po) :
          so \in Perms(DOMAIN GetScriptPaths(g)),
          to \in Perms(DOMAIN g.Templates.m),
          po \in {f \in [DOMAIN flat -> orders] :
                    \A j \in DOMAIN flat : f[j] \in Perms(DOMAIN flat[j].flatProps)}}

\* ------------------------------------------------------------------------
\* The instance groups tried
\* ------------------------------------------------------------------------

Package(name, sha1) == [Name |-> Bytes(name), Fingerprint |-> Bytes(sha1), SHA1 |-> Bytes(sha1)]

DevJob(sha1, pkgs) ==
    [SHA1 |-> Bytes(sha1), Packages |-> pkgs,
     Properties |-> <<JobProperty(1), JobProperty(2)>>]

\* the job references tried: one job or MaxDevJobs jobs; a job's SHA1 or a
\* package's fingerprint, and its SHA1 with it, differ between them
JobReferenceLists ==
    {<<DevJob(<<"a", "b">>, <<Package(<<"a">>, <<"a", "a">>)>>)>>,
     <<DevJob(<<"c", "d">>, <<Package(<<"a">>, <<"a", "a">>)>>)>>,
     <<DevJob(<<"a", "b">>, <<Package(<<"a">>, <<"f", "f">>)>>)>>}
    \cup {[j \in 1..MaxDevJobs |->
              DevJob(IF j = 1 THEN <<"a", "b">> ELSE <<"c", "d">>,
                     IF j = 1 THEN <<Package(<<"b">>, <<"b", "b">>), Package(<<"a">>, <<"a", "a">>)>>
                     ELSE <<>>)]}

\* the scripts and the files next to the role manifest; a script /x is absolute
ScriptSets ==
    LET s == Bytes(<<"s">>)
        t == Bytes(<<"t">>)
        c == Bytes(<<"c">>)
        d == Bytes(<<"d">>)
        Set(environ, scripts, files) ==
            [EnvironScripts |-> environ, Scripts |-> scripts, PostConfigScripts |-> <<>>,
             Files |-> files]
    IN {Set(<<>>, <<>>, <<>>),
        Set(<<>>, <<s>>, <<>>),
        Set(<<>>, <<s>>, [f \in {ManifestDir \o s} |-> c]),
        Set(<<t>>, <<s, Bytes(<<"/", "x">>)>>, [f \in {ManifestDir \o s, ManifestDir \o t} |-> c]),
        Set(<<t>>, <<s, Bytes(<<"/", "x">>)>>,
            [f \in {ManifestDir \o s, ManifestDir \o t} |-> IF f = ManifestDir \o t THEN d ELSE c])}

\* g.Configuration.Templates: nil or a map from keys to values
TemplateMaps ==
    LET k1 == Bytes(<<"a">>)
        k2 == Bytes(<<"a", ":", " ", "b", "a">>)
        k3 == Bytes(<<"b">>)
        v1 == Bytes(<<"b", "a", ":", " ", "c">>)
        w1 == Bytes(<<"c", "a", ":", " ", "b">>)
    IN {[isNil |-> TRUE, m |-> <<>>]}
       \cup {[isNil |-> FALSE, m |-> m] :
               m \in {[k \in {k1} |-> v1],
                      [k \in {k1} |-> w1],
                      [k \in {k3} |-> v1],
                      [k \in {k1, k2} |-> IF k = k1 THEN v1 ELSE w1],
                      [k \in {k1, k2} |-> w1]}}

\* the opinions: nil, or a light and a dark document
OpinionSets ==
    LET abc(v) == MapOf(PropertiesKey, MapOf(<<"a">>, MapOf(<<"b">>, MapOf(<<"c">>, v))))
        none == MapOf(PropertiesKey, EmptyMap)
    IN {[isNil |-> TRUE, Light |-> EmptyMap, Dark |-> EmptyMap]}
       \cup {[isNil |-> FALSE, Light |-> l, Dark |-> none] :
               l \in {EmptyMap, abc(Nil), abc(Leaf("int", 42)), abc(Leaf("int", 9))}}
       \cup {[isNil |-> FALSE, Light |-> abc(Leaf("int", 9)), Dark |-> abc(Nil)]}

\* the tool versions tried
FissileVersions == {Bytes(<<"a">>), Bytes(<<"b">>)}

\* an instance group with its inputs
Role(refs, sc, tm, op, fv) ==
    [JobReferences |-> refs,
     EnvironScripts |-> sc.EnvironScripts, Scripts |-> sc.Scripts,
     PostConfigScripts |-> sc.PostConfigScripts, Files |-> sc.Files,
     Templates |-> tm, Opinions |-> op,
     FissileVersion |-> fv, TagExtra |-> Bytes(<<"x">>)]

\* pairs of instance groups that are the same or differ in one input; the first
\* of a pair has the package a with its first fingerprint, no script or two
\* with their files, nil or a template a, nil or an opinion of a.b.c, and the
\* first tool version
RolePairs ==
    UNION {{<<Role(refs, sc, tm, op, fv), Role(refs, sc, tm, op, fv)>>}
           \cup {<<Role(refs, sc, tm, op, fv), Role(other, sc, tm, op, fv)>> : other \in JobReferenceLists}
           \cup {<<Role(refs, sc, tm, op, fv), Role(refs, other, tm, op, fv)>> : other \in ScriptSets}
           \cup {<<Role(refs, sc, tm, op, fv), Role(refs, sc, other, op, fv)>> : other \in TemplateMaps}
           \cup {<<Role(refs, sc, tm, op, fv), Role(refs, sc, tm, other, fv)>> : other \in OpinionSets}
           \cup {<<Role(refs, sc, tm, op, fv), Role(refs, sc, tm, op, other)>> : other \in FissileVersions} :
             refs \in {r \in JobReferenceLists : r[1].SHA1 = Bytes(<<"a", "b">>)},
             sc \in {c \in ScriptSets : c.Scripts = <<>> \/ c.EnvironScripts # <<>>},
             tm \in {t \in TemplateMaps : t.isNil \/ Bytes(<<"a">>) \in DOMAIN t.m},
             op \in {o \in OpinionSets : o.isNil \/ <<>> \in DOMAIN Subtree(o.Light, <<PropertiesKey, <<"a">>, <<"b">>, <<"c">>>>)},
             fv \in {Bytes(<<"a">>)}}

NoVersion == [done |-> FALSE, err |-> FALSE, bytes |-> <<>>, inOrder |-> TRUE]

\* two instance groups that are the same or differ in one input
DevInit ==
    /\ roles \in RolePairs
    /\ devVersions = <<NoVersion, NoVersion>>
    /\ CompileIdle
    /\ LinksIdle
    /\ AggIdle
    /\ RunIdle
    /\ PropsIdle
    /\ QueueIdle
    /\ StagesIdle

\* roles[i].GetRoleDevVersion(opinions, tagExtra, fissileVersion, nil)
GetRoleDevVersion(i) ==
    /\ ~devVersions[i].done
    /\ \E out \in DevOutcomes(roles[i]) :
          devVersions' = [devVersions EXCEPT ![i] =
                             [done |-> TRUE, err |-> out.err, bytes |-> out.bytes,
                              inOrder |-> out.inOrder]]
    /\ UNCHANGED <<roles, compileVars, linkVars, aggVars, runVars, propVars, queueVars, stageVars>>

DevNext == \E i \in 1..2 : GetRoleDevVersion(i)

SpecDev == DevInit /\ [][DevNext]_vars

\* both runs returned a version
BothVersions ==
    /\ devVersions[1].done /\ ~devVersions[1].err
    /\ devVersions[2].done /\ ~devVersions[2].err

\* C11: GetRoleDevVersion is stable: two runs on the same inputs (job references
\* in the same order, same packages, scripts, templates, opinions, tag and tool
\* version) hash the same bytes and fail alike, whatever the orders in which the
\* maps of the templates, the script paths and the flattened properties are
\* ranged over.
C11_DevVersionStable ==
    (roles[1] = roles[2] /\ devVersions[1].done /\ devVersions[2].done) =>
        /\ devVersions[1].err = devVersions[2].err
        /\ devVersions[1].bytes = devVersions[2].bytes

\* the same inputs with two scripts, two templates and two properties, ranged
\* over in sorted order in one run and in another order in the other
C11_Witness ==
    /\ roles[1] = roles[2]
    /\ BothVersions
    /\ devVersions[1].inOrder /\ ~devVersions[2].inOrder
    /\ Cardinality(DOMAIN GetScriptPaths(roles[1])) = 2
    /\ Cardinality(DOMAIN roles[1].Templates.m) = 2
    /\ Len(roles[1].JobReferences) = 2
    /\ ~roles[1].Opinions.isNil

\* g and h are the same but for these fields
EqualBut(g, h, fields) == \A f \in (DOMAIN g) \ fields : g[f] = h[f]

\* the keys at which two maps or lists with the same keys differ
ChangedAt(a, b) == {k \in DOMAIN a : a[k] # b[k]}

\* one job reference of h has another SHA1 than in g
JobSha1Change(g, h) ==
    /\ EqualBut(g, h, {"JobReferences"})
    /\ Len(g.JobReferences) = Len(h.JobReferences)
    /\ \E j \in DOMAIN g.JobReferences :
          /\ ChangedAt(g.JobReferences, h.JobReferences) = {j}
          /\ EqualBut(g.JobReferences[j], h.JobReferences[j], {"SHA1"})

\* one package of one job reference of h has another fingerprint, and with it
\* another SHA1, than in g
PackageFingerprintChange(g, h) ==
    /\ EqualBut(g, h, {"JobReferences"})
    /\ Len(g.JobReferences) = Len(h.JobReferences)
    /\ \E j \in DOMAIN g.JobReferences :
          LET gp == g.JobReferences[j].Packages
              hp == h.JobReferences[j].Packages
          IN /\ ChangedAt(g.JobReferences, h.JobReferences) = {j}
             /\ EqualBut(g.JobReferences[j], h.JobReferences[j], {"Packages"})
             /\ Len(gp) = Len(hp)
             /\ \E k \in DOMAIN gp :
                   /\ ChangedAt(gp, hp) = {k}
                   /\ gp[k].Name = hp[k].Name
                   /\ gp[k].Fingerprint # hp[k].Fingerprint

\* the file of one script has another content in h than in g
ScriptContentChange(g, h) ==
    /\ EqualBut(g, h, {"Files"})
    /\ DOMAIN g.Files = DOMAIN h.Files
    /\ \E f \in Range(GetScriptPaths(g)) : ChangedAt(g.Files, h.Files) = {f}

\* one template has another value in h than in g
TemplateValueChange(g, h) ==
    /\ EqualBut(g, h, {"Templates"})
    /\ ~g.Templates.isNil /\ ~h.Templates.isNil
    /\ DOMAIN g.Templates.m = DOMAIN h.Templates.m
    /\ Cardinality(ChangedAt(g.Templates.m, h.Templates.m)) = 1

\* one template has another key in h than in g
TemplateKeyChange(g, h) ==
    /\ EqualBut(g, h, {"Templates"})
    /\ ~g.Templates.isNil /\ ~h.Templates.isNil
    /\ \E k \in DOMAIN g.Templates.m \ DOMAIN h.Templates.m :
       \E l \in DOMAIN h.Templates.m \ DOMAIN g.Templates.m :
          /\ DOMAIN g.Templates.m \ {k} = DOMAIN h.Templates.m \ {l}
          /\ g.Templates.m[k] = h.Templates.m[l]
          /\ \A o \in DOMAIN g.Templates.m \ {k} : g.Templates.m[o] = h.Templates.m[o]

\* the light opinions of h hold another value than those of g for one property
\* of a job of the instance group, none of the two null
LightValueChange(g, h) ==
    /\ EqualBut(g, h, {"Opinions"})
    /\ ~g.Opinions.isNil /\ ~h.Opinions.isNil
    /\ g.Opinions.Dark = h.Opinions.Dark
    /\ DOMAIN g.Opinions.Light = DOMAIN h.Opinions.Light
    /\ \E j \in DOMAIN g.JobReferences :
       \E i \in DOMAIN g.JobReferences[j].Properties :
          LET path == <<PropertiesKey>> \o getKeyGrams(g.JobReferences[j].Properties[i].Name)
          IN /\ ChangedAt(g.Opinions.Light, h.Opinions.Light) = {path}
             /\ g.Opinions.Light[path].kind # "nil"
             /\ h.Opinions.Light[path].kind # "nil"

\* h is hashed with another tool version than g
ToolVersionChange(g, h) ==
    /\ EqualBut(g, h, {"FissileVersion"})
    /\ g.FissileVersion # h.FissileVersion

\* the bytes hashed for the two instance groups differ
Distinguished == BothVersions => devVersions[1].bytes # devVersions[2].bytes

\* C12: the bytes GetRoleDevVersion hashes change whenever one of these changes
\* and the rest stays the same: a package fingerprint, a job SHA1, the content
\* of a script, the key or the value of a template, the light opinion of a
\* property of a job of the instance group, the tool version.
C12_SingleChangeDistinguished ==
    (\/ PackageFingerprintChange(roles[1], roles[2])
     \/ JobSha1Change(roles[1], roles[2])
     \/ ScriptContentChange(roles[1], roles[2])
     \/ TemplateKeyChange(roles[1], roles[2])
     \/ TemplateValueChange(roles[1], roles[2])
     \/ LightValueChange(roles[1], roles[2])
     \/ ToolVersionChange(roles[1], roles[2]))
    => Distinguished

\* every change but the one of a template's value is distinguished
OtherChangesDistinguished ==
    (\/ PackageFingerprintChange(roles[1], roles[2])
     \/ JobSha1Change(roles[1], roles[2])
     \/ ScriptContentChange(roles[1], roles[2])
     \/ TemplateKeyChange(roles[1], roles[2])
     \/ LightValueChange(roles[1], roles[2])
     \/ ToolVersionChange(roles[1], roles[2]))
    => Distinguished

\* ========================================================================
\* The stages of the resolver (Resolver.ResolveRoleManifest)
\* ========================================================================

\* largest number of instance groups of a role manifest
MaxGroups == 2

\* ------------------------------------------------------------------------
\* The checks ResolveRoleManifest calls
\* ------------------------------------------------------------------------

\* a key of configuration.templates: a YAML string or another scalar
TemplateKey(kind, text) == [kind |-> kind, text |-> text]

RECURSIVE validateTemplateKeysAndValues(_)
\* one error for each template key that is not a string
validateTemplateKeysAndValues(templates) ==
    IF templates = <<>> THEN <<>>
    ELSE (IF Head(templates).kind = "string" THEN <<>>
          ELSE <<ValidationError("Invalid", <<"configuration", "templates">>,
                                 Head(templates).text)>>)
         \o validateTemplateKeysAndValues(Tail(templates))

\* a resolver that goes on with template keys that are not strings
KeysNeverRejected(errs) == FALSE

\* if len(allErrs) != 0 { return allErrs }, after validateTemplateKeysAndValues
KeysRejected(errs) == Len(errs) # 0

\* a resolver that goes on to the next stage whatever the stage reported
StageNeverFailed(errs) == FALSE

\* if len(allErrs) != 0 { return allErrs }, at the end of the loop over the
\* instance groups; len(allErrs) == 0 guards the last stage
StageFailed(errs) == Len(errs) # 0

\* the switch on instanceGroup.Type: the empty type becomes bosh
TypeOfGroup(g) == IF g.Type = "" THEN "bosh" ELSE g.Type

TypeErrs(g) ==
    IF g.Type \in {"", "bosh", "bosh-task", "colocated-container"} THEN <<>>
    ELSE <<ValidationError("Invalid", <<"instance_groups", g.Name, "type">>, g.Type)>>

\* default_feature, if_feature and unless_feature are mutually exclusive
FeatureErrs(g) ==
    IF \/ g.DefaultFeature # "" /\ (g.IfFeature # "" \/ g.UnlessFeature # "")
       \/ g.IfFeature # "" /\ g.UnlessFeature # ""
    THEN <<ValidationError("Forbidden", GroupField(g.Name),
                           <<g.DefaultFeature, g.IfFeature, g.UnlessFeature>>)>>
    ELSE <<>>

\* RoleManifest.AddFeature: a feature of that name is known from now on
AddFeature(features, name, value) ==
    IF name = "" \/ name \in DOMAIN features THEN features ELSE MapPut(features, name, value)

\* validateRoleTags: the tags belong to the closed set
validateRoleTags(g) ==
    LET known == {"stop-on-failure", "sequential-startup", "active-passive", "istio-managed"}
        bad == SelectSeq(g.Tags, LAMBDA t : t \notin known)
    IN [i \in DOMAIN bad |->
           ValidationError("Invalid", <<"instance_groups", g.Name, "tags", i>>, bad[i])]

\* validateRoleRun, as far as the service account goes: no account means the
\* account default
validateRoleRun(g, run) ==
    [Run |-> IF run.ServiceAccount = "" THEN [run EXCEPT !.ServiceAccount = "default"]
             ELSE run,
     errs |-> <<>>]

\* validateInstanceGroup: every job reference names a job of a loaded release
validateInstanceGroup(g) ==
    IF g.JobsBound THEN <<>>
    ELSE <<ValidationError("Invalid", <<"instance_groups", g.Name, "jobs">>, "job not found")>>

\* validateVariableType and the other checks of the whole manifest
validateVariableType(variables) ==
    IF variables = "ok" THEN <<>>
    ELSE <<ValidationError("Invalid", <<"variables">>, variables)>>

\* the zero value of model.AuthAccount
ZeroAccount == [Roles |-> {}, ClusterRoles |-> {}, UsedBy |-> {}]

\* an accounting that forgets the roles of the account
UsedByOfNone(usedBy, names, accountName) == usedBy

\* for _, roleName := range account.Roles { RoleUsedBy[roleName][accountName] = struct{}{} }
UsedByOf(usedBy, names, accountName) ==
    [n \in DOMAIN usedBy \cup names |->
        IF n \in names THEN MapGet(usedBy, n, {}) \cup {accountName} ELSE usedBy[n]]

\* the account the instance group is counted under; run is g.Run, a pointer:
\* <<>> for nil, else the one RoleRun it points to
AccountNameOf(run) == IF run # <<>> THEN run[1].ServiceAccount ELSE "default"

\* the body of the first loop for the instance group at i; st is [m, errs, calls]
GroupChecks(st, i) ==
    LET g == st.m.InstanceGroups[i]
        run == CalculateRoleRunOf(g)
        checked == validateRoleRun(g, run.Run)
        features == AddFeature(AddFeature(AddFeature(st.m.Features,
                        g.DefaultFeature, TRUE), g.IfFeature, FALSE), g.UnlessFeature, FALSE)
        accountName == AccountNameOf(<<checked.Run>>)
        account == [MapGet(st.m.Accounts, accountName, ZeroAccount)
                       EXCEPT !.UsedBy = @ \cup {g.Name}]
    IN [m |-> [st.m EXCEPT
                  !.InstanceGroups[i].Type = TypeOfGroup(g),
                  !.InstanceGroups[i].Run = <<checked.Run>>,
                  !.Features = features,
                  !.Accounts = MapPut(@, accountName, account),
                  !.RoleUsedBy = UsedByOf(@, account.Roles, accountName),
                  !.ClusterRoleUsedBy = UsedByOf(@, account.ClusterRoles, accountName)],
        errs |-> st.errs \o TypeErrs(g) \o FeatureErrs(g) \o run.errs
                    \o validateRoleTags(g) \o checked.errs,
        calls |-> st.calls \o <<<<"CalculateRoleRun", g.Name>>, <<"validateRoleTags", g.Name>>,
                                <<"validateRoleRun", g.Name>>,
                                <<"validateJobReferences", g.Name>>>>]

RECURSIVE GroupsLoop(_, _)
\* for _, instanceGroup := range m.InstanceGroups, the first loop
GroupsLoop(st, i) ==
    IF i > Len(st.m.InstanceGroups) THEN st ELSE GroupsLoop(GroupChecks(st, i), i + 1)

RECURSIVE BindingLoop(_, _)
\* for _, instanceGroup := range m.InstanceGroups, the second loop
BindingLoop(st, i) ==
    IF i > Len(st.m.InstanceGroups) THEN st
    ELSE LET g == st.m.InstanceGroups[i]
         IN BindingLoop([st EXCEPT !.errs = @ \o validateInstanceGroup(g),
                                   !.calls = Append(@, <<"validateInstanceGroup", g.Name>>)],
                        i + 1)

\* the last stage: the links, when the releases cannot be validated, and the
\* checks of the whole manifest. The links of the job references are not
\* carried here.
GlobalChecks(st, r) ==
    [st EXCEPT
       !.errs = @ \o validateVariableType(st.m.Variables),
       !.calls = @ \o <<<<"calculateConfigurationTemplates", "">>>>
                   \o (IF ~r.CanValidate THEN <<<<"ResolveLinks", "">>>> ELSE <<>>)
                   \o <<<<"validateVariableType", "">>, <<"validateVariablePreviousNames", "">>,
                        <<"validateServiceAccounts", "">>,
                        <<"validateUnusedColocatedContainerRoles", "">>,
                        <<"validateColocatedContainerPortCollisions", "">>,
                        <<"validateColocatedContainerVolumeShares", "">>,
                        <<"validateVariableDescriptions", "">>>>
                   \o (IF ~r.CanValidate THEN <<<<"validateScripts", "">>>> ELSE <<>>)]

\* ResolveRoleManifest of the resolver r on m: [m, errs, calls]
ResolveRoleManifestOf(m, r) ==
    LET keyErrs == validateTemplateKeysAndValues(m.Templates)
        start == [m |-> m, errs |-> <<>>, calls |-> <<<<"validateTemplateKeysAndValues", "">>>>]
    IN IF KeysRejected(keyErrs) THEN [start EXCEPT !.errs = keyErrs]
       ELSE IF r.MapReleasesFails
       THEN [start EXCEPT !.errs = <<ValidationError("error", <<"releases">>, "MapReleases")>>,
                          !.calls = Append(@, <<"MapReleases", "">>)]
       ELSE LET groups == GroupsLoop([start EXCEPT !.calls = Append(@, <<"MapReleases", "">>)], 1)
            IN IF StageFailed(groups.errs) THEN groups
               ELSE LET bound == BindingLoop(groups, 1)
                    IN IF StageFailed(bound.errs) THEN bound
                       ELSE GlobalChecks(bound, r)

\* ------------------------------------------------------------------------
\* Role manifests and resolvers
\* ------------------------------------------------------------------------

\* a job reference that declares the service account
JobWithAccount(account) == [NoRunProperty EXCEPT !.Run = TRUE, !.ServiceAccount = account]

\* the job references tried: none with a run property, one without an account,
\* one with an account, two with different accounts
StageJobLists ==
    {<<NoRunProperty>>, <<JobWithAccount("")>>, <<JobWithAccount("s1")>>,
     <<NoRunProperty, JobWithAccount("s2")>>, <<JobWithAccount("s1"), JobWithAccount("s2")>>}

\* the feature guards tried: none, each alone, two at once
FeatureGuards ==
    {<<"", "", "">>, <<"f1", "", "">>, <<"", "f2", "">>, <<"f1", "f2", "">>}

StageGroup(name, type, guards, refs, tags, bound) ==
    [Name |-> name, Type |-> type, DefaultFeature |-> guards[1], IfFeature |-> guards[2],
     UnlessFeature |-> guards[3], JobReferences |-> refs, Tags |-> tags, JobsBound |-> bound,
     Run |-> <<>>]

\* the first instance group of the role manifests tried
FirstGroups ==
    {StageGroup("ga", type, guards, refs, tags, bound) :
        type \in {"", "bosh", "docker"}, guards \in FeatureGuards, refs \in StageJobLists,
        tags \in {<<>>, <<"active-passive", "bogus">>}, bound \in BOOLEAN}

\* the names of the instance groups, by position
GroupNames == <<"ga", "gb", "gc", "gd">>

\* the instance groups that follow the first, before they are named
NextGroups ==
    {StageGroup("gb", "bosh-task", <<"", "", "f3">>, <<JobWithAccount("s1")>>, <<>>, TRUE),
     StageGroup("gb", "", <<"", "", "">>, <<JobWithAccount("")>>, <<>>, TRUE),
     StageGroup("gb", "", <<"", "", "">>, <<JobWithAccount("s2")>>, <<>>, FALSE),
     StageGroup("gb", "vm", <<"f1", "", "f3">>, <<>>, <<"bogus">>, TRUE)}

\* configuration.auth as loaded: the accounts with their roles, nobody counted
AccountMaps ==
    {<<>>,
     [a \in {"default", "s1", "s2"} |->
         [Roles |-> IF a = "s2" THEN {"r1", "r2"} ELSE {"r1"},
          ClusterRoles |-> IF a = "s1" THEN {"c1"} ELSE {},
          UsedBy |-> {}]]}

RoleManifestOf(templates, groups, accounts, variables) ==
    [Templates |-> templates, InstanceGroups |-> groups, Features |-> <<>>,
     Accounts |-> accounts, RoleUsedBy |-> <<>>, ClusterRoleUsedBy |-> <<>>,
     Variables |-> variables]

\* ResolveRoleManifest has not run
NotResolved(r) == [done |-> FALSE, r |-> r, errs |-> <<>>, calls |-> <<>>]

StagesInit ==
    /\ \E templates \in {<<>>, <<TemplateKey("string", "k"), TemplateKey("int", "1"),
                                TemplateKey("bool", "true")>>},
          first \in FirstGroups, accounts \in AccountMaps, variables \in {"ok", "bad type"} :
          \E n \in 0..(MaxGroups - 1) : \E next \in [1..n -> NextGroups] :
             roleManifest = RoleManifestOf(templates,
                 <<first>> \o [i \in 1..n |-> [next[i] EXCEPT !.Name = GroupNames[i + 1]]],
                 accounts, variables)
    /\ \E fails \in BOOLEAN, can \in BOOLEAN :
          resolveOut = NotResolved([MapReleasesFails |-> fails, CanValidate |-> can])
    /\ CompileIdle
    /\ LinksIdle
    /\ AggIdle
    /\ RunIdle
    /\ PropsIdle
    /\ DevIdle
    /\ QueueIdle

\* r.ResolveRoleManifest()
ResolveRoleManifest ==
    /\ ~resolveOut.done
    /\ LET out == ResolveRoleManifestOf(roleManifest, resolveOut.r)
       IN /\ roleManifest' = out.m
          /\ resolveOut' = [resolveOut EXCEPT !.done = TRUE, !.errs = out.errs,
                                              !.calls = out.calls]
    /\ UNCHANGED <<compileVars, linkVars, aggVars, runVars, propVars, devVars, queueVars>>

StagesNext == ResolveRoleManifest

SpecStages == StagesInit /\ [][StagesNext]_vars

\* ------------------------------------------------------------------------
\* Properties of ResolveRoleManifest
\* ------------------------------------------------------------------------

\* the step in which ResolveRoleManifest runs
Resolving == ~resolveOut.done /\ resolveOut'.done

\* the functions called, with the instance group they are called for
CallsOf(out) == Range(out.calls)

\* the calls of the stages after the first
BindingCalls == {<<"validateInstanceGroup", GroupNames[i]>> : i \in DOMAIN GroupNames}

GlobalCalls ==
    {<<fn, "">> : fn \in {"calculateConfigurationTemplates", "ResolveLinks",
                          "validateVariableType", "validateVariablePreviousNames",
                          "validateServiceAccounts", "validateUnusedColocatedContainerRoles",
                          "validateColocatedContainerPortCollisions",
                          "validateColocatedContainerVolumeShares",
                          "validateVariableDescriptions", "validateScripts"}}

\* the template keys are strings and the releases are mapped: the loops over
\* the instance groups are reached
StagesReached(m, r) ==
    validateTemplateKeysAndValues(m.Templates) = <<>> /\ ~r.MapReleasesFails

\* the errors of an instance group that do not depend on the other groups
OwnErrs(g) == TypeErrs(g) \o FeatureErrs(g) \o CalculateRoleRunOf(g).errs \o validateRoleTags(g)

\* the errors the first loop over the instance groups of m reports
FirstStageErrs(m) == GroupsLoop([m |-> m, errs |-> <<>>, calls |-> <<>>], 1).errs

\* the errors the second loop reports
BindingErrs(m) == BindingLoop([m |-> m, errs |-> <<>>, calls |-> <<>>], 1).errs

\* C25: within a stage the errors accumulate: every instance group is checked
\* and its errors are returned whatever the other groups gave; when the stage
\* of the instance groups reports an error, job binding, link resolution and
\* global validation do not run, and when job binding reports an error, link
\* resolution and global validation do not run.
C25_StagesAccumulate ==
    [][(Resolving /\ StagesReached(roleManifest, resolveOut.r)) =>
        LET m == roleManifest
            out == resolveOut'
            groups == m.InstanceGroups
        IN /\ \A i \in DOMAIN groups :
                 /\ \A fn \in {"CalculateRoleRun", "validateRoleTags", "validateRoleRun",
                               "validateJobReferences"} : <<fn, groups[i].Name>> \in CallsOf(out)
                 /\ Range(OwnErrs(groups[i])) \subseteq Range(out.errs)
           /\ IF FirstStageErrs(m) # <<>>
              THEN /\ out.errs = FirstStageErrs(m)
                   /\ CallsOf(out) \cap (BindingCalls \cup GlobalCalls) = {}
              ELSE /\ \A i \in DOMAIN groups :
                         /\ <<"validateInstanceGroup", groups[i].Name>> \in CallsOf(out)
                         /\ Range(validateInstanceGroup(groups[i])) \subseteq Range(out.errs)
                   /\ IF BindingErrs(m) # <<>>
                      THEN /\ out.errs = BindingErrs(m)
                           /\ CallsOf(out) \cap GlobalCalls = {}
                      ELSE /\ <<"validateVariableType", "">> \in CallsOf(out)
                           /\ <<"ResolveLinks", "">> \in CallsOf(out) <=> ~resolveOut.r.CanValidate
                           /\ out.errs = validateVariableType(m.Variables)]_vars

\* the errors returned name the type of the first instance group and the tags
\* of the second, and no job was bound
C25_Witness ==
    /\ resolveOut.done
    /\ Len(roleManifest.InstanceGroups) = 2
    /\ \E k \in DOMAIN resolveOut.errs :
          resolveOut.errs[k].field = <<"instance_groups", "ga", "type">>
    /\ \E k \in DOMAIN resolveOut.errs :
          resolveOut.errs[k].field = <<"instance_groups", "gb", "tags", 1>>
    /\ <<"validateRoleTags", "gb">> \in CallsOf(resolveOut)
    /\ CallsOf(resolveOut) \cap BindingCalls = {}

\* job binding failed for the second instance group: both were checked, and
\* the last stage did not run
BindingStopsWitness ==
    /\ resolveOut.done
    /\ Len(roleManifest.InstanceGroups) = 2
    /\ BindingCalls \cap CallsOf(resolveOut)
          = {<<"validateInstanceGroup", "ga">>, <<"validateInstanceGroup", "gb">>}
    /\ Len(resolveOut.errs) = 1
    /\ CallsOf(resolveOut) \cap GlobalCalls = {}

\* C26: when a template key is not a string, ResolveRoleManifest returns the
\* errors of the template keys and nothing else, and does nothing more: the
\* releases are not mapped, and the instance groups (Type, Run), the features
\* and Accounts, RoleUsedBy and ClusterRoleUsedBy are as they were.
C26_TemplateKeysStop ==
    [][(Resolving /\ validateTemplateKeysAndValues(roleManifest.Templates) # <<>>) =>
        /\ resolveOut'.errs = validateTemplateKeysAndValues(roleManifest.Templates)
        /\ CallsOf(resolveOut') = {<<"validateTemplateKeysAndValues", "">>}
        /\ roleManifest' = roleManifest]_vars

\* two template keys were rejected; the first instance group has no type and a
\* feature guard, the accounts are declared, and nothing of it was touched
C26_Witness ==
    /\ resolveOut.done
    /\ Len(resolveOut.errs) = 2
    /\ Len(roleManifest.InstanceGroups) = 2
    /\ roleManifest.InstanceGroups[1].Type = ""
    /\ roleManifest.InstanceGroups[1].DefaultFeature = "f1"
    /\ roleManifest.InstanceGroups[1].Run = <<>>
    /\ roleManifest.Features = <<>>
    /\ "s1" \in DOMAIN roleManifest.Accounts
    /\ roleManifest.RoleUsedBy = <<>>

\* the service accounts the job references of the instance group declare
DeclaredAccounts(g) ==
    {g.JobReferences[i].ServiceAccount :
        i \in {k \in DOMAIN g.JobReferences : g.JobReferences[k].Run}} \ {""}

\* the account of the instance group: the one it declares, default for none
AccountOf(g) ==
    IF DeclaredAccounts(g) = {} THEN "default" ELSE CHOOSE a \in DeclaredAccounts(g) : TRUE

\* the loops over the instance groups ran
GroupsCounted ==
    resolveOut.done /\ StagesReached(roleManifest, resolveOut.r)

\* the accounts that count an instance group
UsedAccounts == {a \in DOMAIN roleManifest.Accounts : roleManifest.Accounts[a].UsedBy # {}}

====
